---- MODULE Spec2Model ----
(***************************************************************************)
(* The output history of libfizmo (src/src/interpreter/history.c): a       *)
(* circular buffer of z_ucs units with in-band metadata records, and the   *)
(* history_output cursors that walk it.                                    *)
(*                                                                         *)
(* Pointers into the buffer are modelled as offsets from                   *)
(* z_history_buffer_start; "block" names the allocation realloc returned   *)
(* (0 is NULL), so a pointer is the pair (block, offset).  Cell "size" of  *)
(* the buffer is the guard cell written by try_to_enlarge_buffer.          *)
(***************************************************************************)
EXTENDS Integers, Sequences, FiniteSets, TLC

\* ------------------------------------------------------------------------
\* Values of history.h / z_ucs.h / types.h (headers of the repository)
\* ------------------------------------------------------------------------
HISTORY_METADATA_ESCAPE == 0
HISTORY_METADATA_TYPE_FONT == 1
HISTORY_METADATA_TYPE_STYLE == 2
HISTORY_METADATA_TYPE_COLOUR == 3
HISTORY_METADATA_TYPE_PARAGRAPHATTRIBUTE == 4
HISTORY_METADATA_DATA_OFFSET == 13
Z_UCS_NEWLINE == 10
Z_COLOUR_UNDEFINED == -2
\* The block size of the state-block policy, scaled down from the header's
\* value so that a handful of writes crosses a block boundary.
Z_HISTORY_METADATA_STATE_BLOCK_SIZE == 16
REPEAT_PARAGRAPH_BUF_SIZE == 1280
\* unsigned int arithmetic of the wrap counters: the C standard's minimum
\* width, UINT_MAX + 1 = 2^16.
UINT_MODULUS == 65536

\* NULL for a pointer kept as an offset, and for one kept with its block.
NULLP == -1
NullPtr == [block |-> 0, off |-> 0]

\* ------------------------------------------------------------------------
\* Bounds of the model
\* ------------------------------------------------------------------------
\* calls of the writer in a run of the writer alone
MaxOps == 3
\* calls of the writer in a run with a reader
MaxWrites == 2
\* calls of the reader in a run, after init_history_output
MaxReads == 4

\* an ordinary text unit ('a')
CH == 97

\* h is the OUTPUTHISTORY, out the history_output the reader holds (empty
\* when it holds none), err the way the process ended ("none" while it
\* runs).  removed, emitted_state, stream and records observe the writer;
\* last is the last call with what it returned; nops and nreads count the
\* calls of the writer and of the reader.  little_endian is the byte order
\* of the machine the build runs on.
VARIABLES h, out, err, removed, emitted_state, stream, records,
          paragraph_removal_function, little_endian, last, nops, nreads

vars == <<h, out, err, removed, emitted_state, stream, records,
          paragraph_removal_function, little_endian, last, nops, nreads>>

\* ------------------------------------------------------------------------
\* create_outputhistory
\* ------------------------------------------------------------------------
NoBuffer == [i \in {} |-> 0]

create_outputhistory(maximum_buffer_size, buffer_increment_size, foreground_colour, background_color, font, style) ==
  [ size |-> 0,
    maximum_size |-> maximum_buffer_size,
    increment_size |-> buffer_increment_size,
    block |-> 0,
    buffer |-> NoBuffer,
    front_index |-> 0,
    back_index |-> 0,
    nof_wraparounds |-> 0,
    last_metadata_block_index |-> 0,
    next_newline_after_buffer_back |-> NullPtr,
    back_index_font |-> font,
    back_index_style |-> style,
    back_index_foreground |-> foreground_colour,
    back_index_background |-> background_color,
    front_index_font |-> font,
    front_index_style |-> style,
    front_index_foreground |-> foreground_colour,
    front_index_background |-> background_color ]

\* The machine state the store functions run on: the store, the fatal-error
\* status of the process (i18n_translate_and_exit), the calls made to
\* paragraph_removal_function, and the observation history the properties
\* are stated over: the units stored in the order they were stored
\* (stream), the metadata records among them with the place in the stream
\* of their first unit (records), and the state the FONT, STYLE and COLOUR
\* records emitted so far amount to (emitted_state).
Machine(hh, e, rem, es, st, recs, prf, le) ==
  [ h |-> hh, err |-> e, removed |-> rem, emitted_state |-> es,
    stream |-> st, records |-> recs, prf |-> prf, little_endian |-> le,
    ret |-> 0 ]

Fatal(m, e) == [m EXCEPT !.err = e]

\* A read through a pointer is defined inside the allocation only.
Readable(hh, i) == hh.block # 0 /\ i >= 0 /\ i <= hh.size

Ptr(hh, i) == [block |-> hh.block, off |-> i]

\* current_index == h->z_history_buffer_end ? start : current_index + 1
NextIndex(hh, i) == IF i = hh.size - 1 THEN 0 ELSE i + 1

\* ------------------------------------------------------------------------
\* get_buffer_space_used / get_buffer_space_available
\* ------------------------------------------------------------------------
get_buffer_space_used(hh) ==
  IF hh.size = 0 THEN 0
  ELSE IF hh.nof_wraparounds = 0 THEN hh.front_index - hh.back_index + 1
  ELSE hh.size - (hh.back_index - hh.front_index)

get_buffer_space_available(hh) ==
  IF hh.size = 0 THEN 0
  ELSE IF hh.nof_wraparounds = 0 THEN (hh.size - 1) - hh.front_index + 1
  ELSE hh.back_index - hh.front_index

\* ------------------------------------------------------------------------
\* process_buffer_back
\* ------------------------------------------------------------------------
\* paragraph_removal_function(a1, a2)
CallRemoval(m, a1, a2) == [m EXCEPT !.removed = Append(@, <<a1, a2>>)]

\* What the body of the do-loop does with the unit at ci, before the final
\* "move to next z_ucs": [m, ci, n].
process_buffer_back_unit(m, ci, n) ==
  LET hh == m.h
      c1 == NextIndex(hh, ci)
      c2 == NextIndex(hh, c1)
      c3 == NextIndex(hh, c2)
      ub == [m |-> Fatal(m, "UB"), ci |-> ci, n |-> n]
  IN
  IF hh.buffer[ci] # HISTORY_METADATA_ESCAPE THEN [m |-> m, ci |-> ci, n |-> n]
  ELSE IF ~Readable(hh, c1) THEN ub
  ELSE LET t == hh.buffer[c1] IN
    IF t = HISTORY_METADATA_ESCAPE THEN [m |-> m, ci |-> c1, n |-> n - 1]
    ELSE IF t = HISTORY_METADATA_TYPE_FONT THEN
      IF ~Readable(hh, c2) THEN ub
      ELSE [m |-> [m EXCEPT !.h.back_index_font = hh.buffer[c2]],
            ci |-> c2, n |-> n - 2]
    ELSE IF t = HISTORY_METADATA_TYPE_STYLE THEN
      IF ~Readable(hh, c2) THEN ub
      ELSE [m |-> [m EXCEPT !.h.back_index_style = hh.buffer[c2]],
            ci |-> c2, n |-> n - 2]
    ELSE IF t = HISTORY_METADATA_TYPE_COLOUR THEN
      IF ~Readable(hh, c2) \/ ~Readable(hh, c3) THEN ub
      ELSE [m |-> [m EXCEPT !.h.back_index_foreground = hh.buffer[c2],
                            !.h.back_index_background = hh.buffer[c3]],
            ci |-> c3, n |-> n - 3]
    ELSE IF t = HISTORY_METADATA_TYPE_PARAGRAPHATTRIBUTE THEN
      IF ~Readable(hh, c2) \/ ~Readable(hh, c3) THEN ub
      ELSE [m |-> IF m.prf /\ hh.next_newline_after_buffer_back = NullPtr
                  THEN CallRemoval(m,
                         hh.buffer[c2] - HISTORY_METADATA_DATA_OFFSET,
                         hh.buffer[c3] - HISTORY_METADATA_DATA_OFFSET)
                  ELSE m,
            ci |-> c3, n |-> n - 3]
    ELSE [m |-> Fatal(m, "INVALID_PARAMETER_TYPE"), ci |-> c1, n |-> n - 1]

\* The do { ... } while (nof_zucs_chars > 0) loop; yields [m, ci].
RECURSIVE process_buffer_back_loop(_, _, _)

\* The end of an iteration: r is what the body left.
process_buffer_back_next(r) ==
  IF r.m.err # "none" THEN [m |-> r.m, ci |-> r.ci]
  ELSE IF r.n - 1 > 0
  THEN process_buffer_back_loop(r.m, NextIndex(r.m.h, r.ci), r.n - 1)
  ELSE [m |-> r.m, ci |-> NextIndex(r.m.h, r.ci)]

process_buffer_back_loop(m, ci, n) ==
  IF ~Readable(m.h, ci) THEN [m |-> Fatal(m, "UB"), ci |-> ci]
  ELSE process_buffer_back_next(
         process_buffer_back_unit(
           IF m.h.next_newline_after_buffer_back = Ptr(m.h, ci)
           THEN [m EXCEPT !.h.next_newline_after_buffer_back = NullPtr]
           ELSE m,
           ci, n))

\* The search for the next newline after the new back; yields [m, ci].
\* "fuel" bounds the walk: a walk that never meets a newline nor the front
\* index does not end in the code ("HANG").
RECURSIVE process_buffer_back_newline(_, _, _)
process_buffer_back_newline(m, ci, fuel) ==
  LET hh == m.h
      c1 == NextIndex(hh, ci)
      c2 == NextIndex(hh, c1)
      c3 == NextIndex(hh, c2)
      c4 == NextIndex(hh, c3)
      ub == [m |-> Fatal(m, "UB"), ci |-> ci]
  IN
  IF fuel = 0 THEN [m |-> Fatal(m, "HANG"), ci |-> ci]
  ELSE IF ~Readable(hh, ci) THEN ub
  ELSE IF hh.buffer[ci] = Z_UCS_NEWLINE THEN [m |-> m, ci |-> ci]
  ELSE IF ci = hh.front_index THEN [m |-> m, ci |-> ci]
  ELSE IF ~Readable(hh, c1) THEN ub
  ELSE IF hh.buffer[c1] # HISTORY_METADATA_ESCAPE
       THEN process_buffer_back_newline(m, c1, fuel - 1)
  ELSE IF ~Readable(hh, c2) \/ ~Readable(hh, c3) THEN ub
  ELSE LET buf1 == hh.buffer[c2]
           buf2 == hh.buffer[c3]
       IN IF buf1 = HISTORY_METADATA_TYPE_PARAGRAPHATTRIBUTE
             \/ buf1 = HISTORY_METADATA_TYPE_COLOUR
          THEN IF ~Readable(hh, c4) THEN ub
               ELSE process_buffer_back_newline(
                      IF buf1 = HISTORY_METADATA_TYPE_PARAGRAPHATTRIBUTE
                      THEN CallRemoval(m,
                             buf2 - HISTORY_METADATA_DATA_OFFSET,
                             hh.buffer[c4] - HISTORY_METADATA_DATA_OFFSET)
                      ELSE m,
                      c4, fuel - 1)
          ELSE process_buffer_back_newline(m, c3, fuel - 1)

\* s is what the search for the next newline left.
process_buffer_back_found(s) ==
  IF s.m.err # "none" THEN s.m
  ELSE [s.m EXCEPT !.h.next_newline_after_buffer_back = Ptr(s.m.h, s.ci)]

\* r is what the do-loop left.
process_buffer_back_search(r) ==
  IF r.m.err # "none" THEN r.m
  ELSE IF r.m.prf /\ r.m.h.next_newline_after_buffer_back = NullPtr
  THEN process_buffer_back_found(
         process_buffer_back_newline(r.m, r.ci, 2 * r.m.h.size + 4))
  ELSE r.m

\* z_ucs *current_index = h->z_history_buffer_front_index: the unit the
\* do-loop looks at first.
process_buffer_back_start(hh) == hh.front_index

process_buffer_back(m, nof_zucs_chars) ==
  process_buffer_back_search(
    process_buffer_back_loop(m, process_buffer_back_start(m.h),
                             nof_zucs_chars))

\* ------------------------------------------------------------------------
\* try_to_enlarge_buffer: realloc's outcome is the oracle o = [ok, moved,
\* fill]: it fails, grows in place or moves the block; cells it adds hold
\* whatever the allocator left there ("fill").
\* ------------------------------------------------------------------------
try_to_enlarge_buffer(m, desired_z_ucs_size, o) ==
  IF ~o.ok THEN m
  ELSE LET hh == m.h IN
    [m EXCEPT
       !.h.size = desired_z_ucs_size,
       !.h.buffer = [i \in 0..desired_z_ucs_size |->
                       IF i = desired_z_ucs_size THEN 0
                       ELSE IF hh.block # 0 /\ i <= hh.size THEN hh.buffer[i]
                       ELSE o.fill],
       !.h.block = IF hh.block = 0 \/ o.moved THEN hh.block + 1 ELSE hh.block]

\* z_ucs_ncpy(dst, src, n) / memcpy: n units of src to offset at.
CopyUnits(m, at, data, n) ==
  [m EXCEPT
     !.h.buffer = [i \in DOMAIN m.h.buffer |->
                     IF i >= at /\ i < at + n THEN data[i - at + 1]
                     ELSE m.h.buffer[i]],
     !.stream = @ \o SubSeq(data, 1, n)]

Drop(data, k) == SubSeq(data, k + 1, Len(data))

\* sizeof(z_ucs): a code unit is a 32-bit unsigned integer.
SIZEOF_Z_UCS == 4

\* memcpy of the first r bytes (0 < r < SIZEOF_Z_UCS) of the unit d over
\* the unit v: the low-order bytes on a little-endian machine, the
\* high-order bytes on a big-endian one.
CopyBytes(le, v, d, r) ==
  IF le THEN (v - (v % (256^r))) + (d % (256^r))
  ELSE (d \div (256^(SIZEOF_Z_UCS - r))) * (256^(SIZEOF_Z_UCS - r))
         + (v % (256^(SIZEOF_Z_UCS - r)))

\* ------------------------------------------------------------------------
\* store_data_in_history
\* ------------------------------------------------------------------------
\* The while (len > 0) loop of the wrap-around situation.
RECURSIVE store_data_wrapped(_, _)

\* After process_buffer_back has left m1: the copy, and the next iteration.
store_data_wrapped_copy(m1, data, len_to_write) ==
  IF m1.err # "none" THEN m1
  ELSE
    LET f1 == m1.h.front_index + len_to_write
        f2 == IF f1 = m1.h.size THEN 0 ELSE f1
    IN store_data_wrapped(
         [CopyUnits(m1, m1.h.front_index, data, len_to_write)
            EXCEPT !.h.front_index = f2, !.h.back_index = f2],
         Drop(data, len_to_write))

wrapped_len_to_write(hh, len) ==
  IF hh.front_index + len - 1 > hh.size - 1
  THEN ((hh.size - 1) - hh.front_index) + 1
  ELSE len

store_data_wrapped(m, data) ==
  IF Len(data) = 0 \/ m.err # "none" THEN m
  ELSE store_data_wrapped_copy(
         process_buffer_back(m, wrapped_len_to_write(m.h, Len(data))),
         data, wrapped_len_to_write(m.h, Len(data)))

\* The branch for len >= z_history_maximum_buffer_size, after the buffer
\* has been processed and enlarged: the memcpy and the new indices.
\* memcpy's third argument is a count of bytes, and the branch passes
\* len - z_history_maximum_buffer_size: that many bytes from the start of
\* data go to the buffer's start, which is n \div SIZEOF_Z_UCS whole units
\* and the first n % SIZEOF_Z_UCS bytes in memory of the unit after them.
store_data_whole_buffer_copy(m2, data) ==
  LET n == Len(data) - m2.h.maximum_size
      whole == n \div SIZEOF_Z_UCS
  IN IF n > 0 /\ (m2.h.block = 0 \/ n > (m2.h.size + 1) * SIZEOF_Z_UCS)
     THEN Fatal(m2, "UB")
     ELSE [CopyUnits(m2, 0, data, whole) EXCEPT
             !.h.buffer[whole] =
                IF n % SIZEOF_Z_UCS = 0 THEN @
                ELSE CopyBytes(m2.little_endian, @, data[whole + 1],
                               n % SIZEOF_Z_UCS),
             !.h.front_index = 0,
             !.h.back_index = IF m2.h.size = 0 THEN 0 ELSE m2.h.size - 1]

store_data_whole_buffer_enlarge(m1, data, o) ==
  IF m1.err # "none" THEN m1
  ELSE store_data_whole_buffer_copy(
         IF m1.h.size < m1.h.maximum_size
         THEN try_to_enlarge_buffer(m1, m1.h.maximum_size, o)
         ELSE m1,
         data)

\* The branch for len >= z_history_maximum_buffer_size.
store_data_whole_buffer(m, data, o) ==
  store_data_whole_buffer_enlarge(
    process_buffer_back(m, get_buffer_space_used(m.h)), data, o)

\* The branch for len < z_history_maximum_buffer_size, with the data cut to
\* the buffer's size: the write up to the buffer's end, then the wrap.
store_data_regular_write(m1, data) ==
  LET h1 == m1.h
      len == Len(data)
      space == IF h1.size = 0 THEN 1 ELSE (h1.size - 1) - h1.front_index + 1
      len_to_write == IF space > len THEN len ELSE space
  IN
  IF h1.nof_wraparounds # 0 THEN store_data_wrapped(m1, data)
  ELSE IF len_to_write = len
  THEN IF len_to_write > 0
       THEN [CopyUnits(m1, h1.front_index, data, len_to_write)
               EXCEPT !.h.front_index = @ + len_to_write]
       ELSE m1
  ELSE store_data_wrapped(
         [(IF len_to_write > 0
           THEN CopyUnits(m1, h1.front_index, data, len_to_write)
           ELSE m1)
            EXCEPT
              !.h.nof_wraparounds =
                 IF (@ + 1) % UINT_MODULUS = 0 THEN 1
                 ELSE (@ + 1) % UINT_MODULUS,
              !.h.front_index = 0],
         Drop(data, len_to_write))

\* A cut that keeps the first units of the data instead of the last.
store_data_regular_cut_head(m1, data0) ==
  store_data_regular_write(m1,
    IF m1.h.size < Len(data0) THEN SubSeq(data0, 1, m1.h.size)
    ELSE data0)

\* After the buffer has been enlarged as far as it may be.
store_data_regular_cut(m1, data0) ==
  store_data_regular_write(m1,
    IF m1.h.size < Len(data0) THEN Drop(data0, Len(data0) - m1.h.size)
    ELSE data0)

\* The branch for len < z_history_maximum_buffer_size.
store_data_regular(m, data0, o) ==
  LET hh == m.h
      len0 == Len(data0)
      space_available == get_buffer_space_available(hh)
      missing_space == len0 - space_available
      nof_increments == (missing_space \div hh.increment_size) + 1
      new_size == hh.size + (nof_increments * hh.increment_size)
      desired_size == IF new_size > hh.maximum_size THEN hh.maximum_size
                      ELSE new_size
  IN store_data_regular_cut(
       IF space_available < len0 /\ desired_size > hh.size
       THEN try_to_enlarge_buffer(m, desired_size, o)
       ELSE m,
       data0)

\* store_data_in_history(h, data, len, false)
store_data_no_state_block(m, data, o) ==
  IF Len(data) >= m.h.maximum_size
  THEN store_data_whole_buffer(m, data, o)
  ELSE store_data_regular(m, data, o)

\* ------------------------------------------------------------------------
\* store_metadata_in_history
\* ------------------------------------------------------------------------
ColourInRange(p) == p >= -2 /\ p <= 15

TwoParameters(t) == t = HISTORY_METADATA_TYPE_COLOUR
                    \/ t = HISTORY_METADATA_TYPE_PARAGRAPHATTRIBUTE

\* The record as output_buffer holds it.
output_buffer(t, p1, p2) ==
  IF TwoParameters(t)
  THEN <<HISTORY_METADATA_ESCAPE, t, p1 + HISTORY_METADATA_DATA_OFFSET,
         p2 + HISTORY_METADATA_DATA_OFFSET>>
  ELSE <<HISTORY_METADATA_ESCAPE, t, p1 + HISTORY_METADATA_DATA_OFFSET>>

\* The assignments to the front-index state.
store_metadata_front_state(hh, t, p1, p2) ==
  IF t = HISTORY_METADATA_TYPE_FONT THEN [hh EXCEPT !.front_index_font = p1]
  ELSE IF t = HISTORY_METADATA_TYPE_STYLE THEN [hh EXCEPT !.front_index_style = p1]
  ELSE IF t = HISTORY_METADATA_TYPE_COLOUR
       THEN [hh EXCEPT !.front_index_foreground = p1]
  ELSE hh

\* The state a FONT, STYLE or COLOUR record sets, applied to st.
ApplyRecord(st, t, p1, p2) ==
  IF t = HISTORY_METADATA_TYPE_FONT THEN [st EXCEPT !.font = p1]
  ELSE IF t = HISTORY_METADATA_TYPE_STYLE THEN [st EXCEPT !.style = p1]
  ELSE IF t = HISTORY_METADATA_TYPE_COLOUR
       THEN [st EXCEPT !.foreground = p1, !.background = p2]
  ELSE st

\* store_data_in_history has left r; the stream held "before" units when
\* it was called.  The record is noted with the units of it that were
\* stored.
store_metadata_stored(r, before, t, p1, p2) ==
  [r EXCEPT !.ret = 0,
            !.records = Append(@, [at |-> before + 1, type |-> t,
                                   p1 |-> p1, p2 |-> p2,
                                   units |-> Len(r.stream) - before])]

store_metadata_in_history(m, t, p1, p2, o) ==
  IF t \notin {HISTORY_METADATA_TYPE_FONT, HISTORY_METADATA_TYPE_STYLE,
               HISTORY_METADATA_TYPE_COLOUR,
               HISTORY_METADATA_TYPE_PARAGRAPHATTRIBUTE}
  THEN [m EXCEPT !.ret = -1]
  ELSE IF t = HISTORY_METADATA_TYPE_COLOUR /\ ~ColourInRange(p1)
  THEN Fatal(m, "INVALID_PARAMETER_TYPE")
  ELSE IF t = HISTORY_METADATA_TYPE_COLOUR /\ ~ColourInRange(p2)
  THEN Fatal([m EXCEPT !.h = store_metadata_front_state(m.h, t, p1, p2)],
             "INVALID_PARAMETER_TYPE")
  ELSE store_metadata_stored(
         store_data_no_state_block(
           [m EXCEPT !.h = store_metadata_front_state(m.h, t, p1, p2),
                     !.emitted_state = ApplyRecord(@, t, p1, p2)],
           output_buffer(t, p1, p2), o),
         Len(m.stream), t, p1, p2)

\* ------------------------------------------------------------------------
\* write_metadata_state_block_if_necessary
\* ------------------------------------------------------------------------
BlockOf(buffer_index) ==
  buffer_index - (buffer_index % Z_HISTORY_METADATA_STATE_BLOCK_SIZE)

\* The three store_metadata_in_history calls of the state block; a call
\* that ends the process leaves nothing for the next to do.
state_block_font(m, o) ==
  store_metadata_in_history(m, HISTORY_METADATA_TYPE_FONT,
    m.h.back_index_font, 0, o)

state_block_style(m, o) ==
  IF m.err # "none" THEN m
  ELSE store_metadata_in_history(m, HISTORY_METADATA_TYPE_STYLE,
         m.h.back_index_style, 0, o)

state_block_colour(m, o) ==
  IF m.err # "none" THEN m
  ELSE store_metadata_in_history(m, HISTORY_METADATA_TYPE_COLOUR,
         m.h.back_index_foreground, m.h.back_index_background, o)

state_block_done(m, metadata_block_index) ==
  IF m.err # "none" THEN m
  ELSE [m EXCEPT !.h.last_metadata_block_index = metadata_block_index]

\* A state block that is written after every text, whatever the block of
\* the front index.
write_metadata_state_block_always(m, o) ==
  state_block_done(
    state_block_colour(state_block_style(state_block_font(m, o), o), o),
    BlockOf(m.h.front_index))

write_metadata_state_block_if_necessary(m, o) ==
  IF BlockOf(m.h.front_index) # m.h.last_metadata_block_index
  THEN state_block_done(
         state_block_colour(state_block_style(state_block_font(m, o), o), o),
         BlockOf(m.h.front_index))
  ELSE state_block_done(m, BlockOf(m.h.front_index))

store_data_state_block(r, evaluate_state_block, o) ==
  IF r.err # "none" \/ ~evaluate_state_block THEN r
  ELSE write_metadata_state_block_if_necessary(r, o)

\* The ret field is the one store_metadata_in_history left: the state
\* block's calls return nothing to the caller of store_data_in_history.
store_data_in_history(m, data, evaluate_state_block, o) ==
  store_data_state_block(store_data_no_state_block(m, data, o),
                         evaluate_state_block, o)

\* store_z_ucs_output_in_history: z_ucs_len(text) units, none of them 0.
store_z_ucs_output_in_history(m, z_ucs_output, o) ==
  IF Len(z_ucs_output) = 0 THEN m
  ELSE store_data_in_history(m, z_ucs_output, TRUE, o)

\* ------------------------------------------------------------------------
\* decrement_buffer_pointer / remove_chars_from_history
\* ------------------------------------------------------------------------
decrement_buffer_pointer(hh, ptr, nof_wraparounds) ==
  IF ptr = hh.back_index /\ ptr = hh.front_index /\ nof_wraparounds > 0
  THEN [ptr |-> NULLP, nw |-> nof_wraparounds]
  ELSE IF ptr - 1 < 0
  THEN IF hh.nof_wraparounds = 0
       THEN [ptr |-> NULLP, nw |-> nof_wraparounds]
       ELSE [ptr |-> hh.size - 1, nw |-> (nof_wraparounds - 1) % UINT_MODULUS]
  ELSE [ptr |-> ptr - 1, nw |-> nof_wraparounds]

\* the units of a record of type t
RecordLen(t) == IF TwoParameters(t) THEN 4 ELSE 3

\* what is left of stream st when its last "steps" units are taken back
Kept(st, steps) == IF Len(st) > steps THEN Len(st) - steps ELSE 0

\* the records of a stream cut to its first "kept" units
CutRecords(recs, kept) ==
  [ i \in 1..Cardinality({j \in 1..Len(recs) : recs[j].at <= kept}) |->
      [recs[i] EXCEPT !.units = IF recs[i].at + @ - 1 > kept
                                THEN kept - recs[i].at + 1 ELSE @] ]

\* The while (nof_chars > 0) loop; "steps" counts the units walked over,
\* "fuel" bounds a walk that does not end in the code.
RECURSIVE remove_chars_loop(_, _, _, _, _, _, _)
remove_chars_loop(m, ptr, nw, last_data, nof_chars, steps, fuel) ==
  IF nof_chars <= 0
  THEN [m EXCEPT !.h.front_index = ptr, !.h.nof_wraparounds = nw, !.ret = 0,
                 !.stream = SubSeq(@, 1, Kept(m.stream, steps)),
                 !.records = CutRecords(@, Kept(m.stream, steps))]
  ELSE IF fuel = 0 THEN Fatal(m, "HANG")
  ELSE
    LET d == decrement_buffer_pointer(m.h, ptr, nw)
    IN IF d.ptr = NULLP THEN [m EXCEPT !.ret = -1]
       ELSE IF m.h.buffer[d.ptr] = HISTORY_METADATA_ESCAPE /\ last_data # 0
       THEN remove_chars_loop(m, d.ptr, d.nw, last_data,
              nof_chars + (IF last_data = HISTORY_METADATA_TYPE_COLOUR
                              \/ last_data = HISTORY_METADATA_TYPE_PARAGRAPHATTRIBUTE
                           THEN 4 ELSE 3),
              steps + 1, fuel - 1)
       ELSE remove_chars_loop(m, d.ptr, d.nw, m.h.buffer[d.ptr],
              nof_chars - 1, steps + 1, fuel - 1)

\* A remove_chars_from_history that assigns front_index while it walks, so
\* that a walk given up at the back leaves the front where it stopped.
remove_chars_from_history_moving_front(m, nof_chars) ==
  IF nof_chars <= 0 THEN [m EXCEPT !.ret = 0]
  ELSE IF m.h.block = 0 THEN Fatal(m, "UB")
  ELSE LET r == remove_chars_loop(m, m.h.front_index, m.h.nof_wraparounds, 0,
                                  nof_chars, 0, 4 * m.h.size + 8)
       IN IF r.ret = -1 THEN [r EXCEPT !.h.front_index = m.h.back_index] ELSE r

remove_chars_from_history(m, nof_chars) ==
  IF nof_chars <= 0 THEN [m EXCEPT !.ret = 0]
  ELSE IF m.h.block = 0 THEN Fatal(m, "UB")
  ELSE remove_chars_loop(m, m.h.front_index, m.h.nof_wraparounds, 0,
                         nof_chars, 0, 4 * m.h.size + 8)

\* ------------------------------------------------------------------------
\* history_output: init_history_output
\* ------------------------------------------------------------------------
\* "block" is the allocation the cursor's pointers point into; "saved" is
\* the saved_* slot, empty until remember_history_output_position fills it
\* (fizmo_malloc does not initialise it, nor metadata_at_index_evaluated).
init_history_output(hh, from_bufferback, without_validation, uninitialised) ==
  LET base ==
        [ block |-> hh.block,
          validity_wraparounds |-> hh.nof_wraparounds,
          validity_frontindex |-> hh.front_index,
          rewound_paragraph_was_newline_terminated |-> FALSE,
          validation_disabled |-> without_validation,
          last_rewinded_paragraphs_block_index |-> -1,
          last_used_metadata_state_font |-> -1,
          last_used_metadata_state_style |-> -1,
          last_used_metadata_state_foreground |-> Z_COLOUR_UNDEFINED,
          last_used_metadata_state_background |-> Z_COLOUR_UNDEFINED,
          last_paragraph_attribute_index |-> NULLP,
          dont_skip_newline |-> FALSE,
          metadata_at_index_evaluated |-> uninitialised,
          saved |-> <<>>,
          current_paragraph_index |-> hh.front_index,
          font_at_index |-> hh.front_index_font,
          style_at_index |-> hh.front_index_style,
          foreground_at_index |-> hh.front_index_foreground,
          background_at_index |-> hh.front_index_background,
          found_end_of_buffer |-> FALSE,
          nof_wraparounds |-> 0,
          first_iteration_done |-> FALSE ]
  IN
  IF hh.size = 0 THEN <<>>
  ELSE IF ~from_bufferback THEN
    LET d == decrement_buffer_pointer(hh, hh.front_index, 0)
    IN IF d.ptr = NULLP THEN <<>>
       ELSE << [base EXCEPT !.current_paragraph_index = d.ptr,
                            !.nof_wraparounds = d.nw] >>
  ELSE
    << [base EXCEPT
          !.current_paragraph_index = hh.back_index,
          !.font_at_index = hh.back_index_font,
          !.style_at_index = hh.back_index_style,
          !.foreground_at_index = hh.back_index_foreground,
          !.background_at_index = hh.back_index_background,
          !.found_end_of_buffer = TRUE,
          !.nof_wraparounds = IF hh.nof_wraparounds > 0
                              THEN hh.nof_wraparounds - 1 ELSE 0,
          !.first_iteration_done = TRUE] >>

\* ------------------------------------------------------------------------
\* validate_outputhistory: TRUE when it returns, FALSE when it ends in
\* i18n_translate_and_exit(HISTORYOUTPUT_NO_LONGER_VALID).
\* ------------------------------------------------------------------------
\* validate_outputhistory without its comparison of the front index.
validate_outputhistory_wraps_only(c, hh) ==
  /\ hh.nof_wraparounds = c.validity_wraparounds
  /\ c.block = hh.block

validate_outputhistory(c, hh) ==
  /\ hh.nof_wraparounds = c.validity_wraparounds
  /\ c.block = hh.block
  /\ c.validity_frontindex = hh.front_index

\* The outcome of a cursor function: the cursor, the store, the process
\* status, the value returned, the out-parameters and the calls made to the
\* history_output_target.
Outcome(c, hh, e, ret, char_count, attrs, calls) ==
  [ c |-> c, h |-> hh, err |-> e, ret |-> ret, char_count |-> char_count,
    attrs |-> attrs, calls |-> calls ]

Invalid(c, hh) == Outcome(c, hh, "HISTORYOUTPUT_NO_LONGER_VALID", 0, <<>>, <<>>, <<>>)

\* A cursor that is not validated and whose pointers point into a block
\* realloc has released: every read through them is undefined.
Dangling(c, hh) == c.block # hh.block

Undefined(c, hh) == Outcome(c, hh, "UB", 0, <<>>, <<>>, <<>>)

\* ------------------------------------------------------------------------
\* evaluate_metadata_for_paragraph
\* ------------------------------------------------------------------------
MetadataUnknown(c) ==
  \/ c.font_at_index = -1
  \/ c.style_at_index = -1
  \/ c.foreground_at_index = Z_COLOUR_UNDEFINED
  \/ c.background_at_index = Z_COLOUR_UNDEFINED

\* The while loop of the search; i2 and i3 are the two indices visited
\* before index.  Yields [c, err].
RECURSIVE evaluate_metadata_search(_, _, _, _, _, _, _)
evaluate_metadata_search(c, hh, index, i2, i3, nw, fuel) ==
  IF ~MetadataUnknown(c) THEN [c |-> c, err |-> "none"]
  ELSE IF fuel = 0 THEN [c |-> c, err |-> "HANG"]
  ELSE
    LET n4 == i3
        n3 == i2
        n2 == index
        d == decrement_buffer_pointer(hh, index, nw)
    IN
    IF d.ptr = NULLP THEN
      [c |-> [c EXCEPT
                !.font_at_index =
                   IF @ = -1 THEN hh.back_index_font ELSE @,
                !.style_at_index =
                   IF @ = -1 THEN hh.back_index_style ELSE @,
                !.foreground_at_index =
                   IF @ = Z_COLOUR_UNDEFINED THEN hh.front_index_foreground
                   ELSE @,
                !.background_at_index =
                   IF @ = Z_COLOUR_UNDEFINED THEN hh.front_index_background
                   ELSE @],
       err |-> "none"]
    ELSE IF hh.buffer[d.ptr] = HISTORY_METADATA_ESCAPE THEN
      IF n3 = NULLP THEN [c |-> c, err |-> "UB"]
      ELSE
        LET metadata_type == hh.buffer[n2]
            parameter == hh.buffer[n3] - HISTORY_METADATA_DATA_OFFSET
        IN
        IF metadata_type = HISTORY_METADATA_TYPE_FONT /\ c.font_at_index = -1
        THEN evaluate_metadata_search([c EXCEPT !.font_at_index = parameter],
               hh, d.ptr, n2, n3, d.nw, fuel - 1)
        ELSE IF metadata_type = HISTORY_METADATA_TYPE_STYLE
                /\ c.style_at_index = -1
        THEN evaluate_metadata_search([c EXCEPT !.style_at_index = parameter],
               hh, d.ptr, n2, n3, d.nw, fuel - 1)
        ELSE IF metadata_type = HISTORY_METADATA_TYPE_COLOUR
                /\ (c.foreground_at_index = Z_COLOUR_UNDEFINED
                    \/ c.background_at_index = Z_COLOUR_UNDEFINED)
        THEN IF n4 = NULLP THEN [c |-> c, err |-> "UB"]
             ELSE evaluate_metadata_search(
                    [c EXCEPT !.foreground_at_index = parameter,
                              !.background_at_index =
                                 hh.buffer[n4] - HISTORY_METADATA_DATA_OFFSET],
                    hh, d.ptr, n2, n3, d.nw, fuel - 1)
        ELSE evaluate_metadata_search(c, hh, d.ptr, n2, n3, d.nw, fuel - 1)
    ELSE evaluate_metadata_search(c, hh, d.ptr, n2, n3, d.nw, fuel - 1)

\* Yields [c, err].
evaluate_metadata_for_paragraph(c, hh) ==
  IF ~c.validation_disabled /\ ~validate_outputhistory(c, hh)
  THEN [c |-> c, err |-> "HISTORYOUTPUT_NO_LONGER_VALID"]
  ELSE IF c.metadata_at_index_evaluated THEN [c |-> c, err |-> "none"]
  ELSE IF c.last_rewinded_paragraphs_block_index
            = BlockOf(c.current_paragraph_index)
          /\ c.last_used_metadata_state_font # -1
          /\ c.last_used_metadata_state_style # -1
          /\ c.last_used_metadata_state_foreground # Z_COLOUR_UNDEFINED
          /\ c.last_used_metadata_state_background # -Z_COLOUR_UNDEFINED
  THEN [c |-> [c EXCEPT
                 !.font_at_index = c.last_used_metadata_state_font,
                 !.style_at_index = c.last_used_metadata_state_style,
                 !.foreground_at_index = c.last_used_metadata_state_foreground,
                 !.background_at_index = c.last_used_metadata_state_background,
                 !.metadata_at_index_evaluated = TRUE],
        err |-> "none"]
  ELSE
    LET r == evaluate_metadata_search(
               [c EXCEPT !.font_at_index = -1, !.style_at_index = -1,
                         !.foreground_at_index = Z_COLOUR_UNDEFINED,
                         !.background_at_index = Z_COLOUR_UNDEFINED],
               hh, c.current_paragraph_index, NULLP, NULLP,
               c.nof_wraparounds, 2 * hh.size + 4)
    IN IF r.err # "none" THEN r
       ELSE [c |-> [r.c EXCEPT !.metadata_at_index_evaluated = TRUE],
             err |-> "none"]

\* ------------------------------------------------------------------------
\* output_rewind_paragraph
\* ------------------------------------------------------------------------
\* The do-while loop.  last_index and last_index2 are the values the loop
\* holds on entry to an iteration; "attrs" is what has been written through
\* paragraph_attr1 / paragraph_attr2.
RECURSIVE rewind_loop(_, _, _, _, _, _, _, _)
rewind_loop(hh, index, nw, last_index, last_index2, nof_chars, attrs, fuel) ==
  LET d == decrement_buffer_pointer(hh, index, nw)
      stop(status) == [status |-> status, last_index |-> index,
                       last_nof_wraparounds |-> nw, nof_chars |-> nof_chars,
                       attrs |-> attrs]
  IN
  IF fuel = 0 THEN stop("HANG")
  ELSE IF d.ptr = NULLP THEN stop("end")
  ELSE
    LET u == hh.buffer[d.ptr]
        n1 == nof_chars + 1
    IN
    IF u = HISTORY_METADATA_ESCAPE THEN
      IF hh.buffer[index] = HISTORY_METADATA_TYPE_COLOUR
      THEN rewind_loop(hh, d.ptr, d.nw, index, last_index, n1 - 4, attrs,
                       fuel - 1)
      ELSE IF hh.buffer[index] = HISTORY_METADATA_TYPE_PARAGRAPHATTRIBUTE
      THEN IF last_index = NULLP \/ last_index2 = NULLP THEN stop("UB")
           ELSE rewind_loop(hh, d.ptr, d.nw, index, last_index, n1 - 4,
                  << hh.buffer[last_index] - HISTORY_METADATA_DATA_OFFSET,
                     hh.buffer[last_index2] - HISTORY_METADATA_DATA_OFFSET >>,
                  fuel - 1)
      ELSE rewind_loop(hh, d.ptr, d.nw, index, last_index, n1 - 3, attrs,
                       fuel - 1)
    ELSE IF u = Z_UCS_NEWLINE
    THEN [stop("found") EXCEPT !.nof_chars = n1]
    ELSE rewind_loop(hh, d.ptr, d.nw, index, last_index, n1, attrs, fuel - 1)

\* From "output->first_iteration_done = true" to the end of the function.
rewind_walk(c0, hh, index, nw) ==
  LET c == [c0 EXCEPT !.first_iteration_done = TRUE]
      r == rewind_loop(hh, index, nw, NULLP, NULLP, 0, <<>>, 2 * hh.size + 4)
  IN
  IF r.status = "HANG" \/ r.status = "UB"
  THEN Outcome(c, hh, r.status, 0, <<>>, r.attrs, <<>>)
  ELSE IF r.status = "end"
  THEN Outcome([c EXCEPT !.found_end_of_buffer = TRUE], hh, "none", 1, <<>>,
               r.attrs, <<>>)
  ELSE
    LET e == evaluate_metadata_for_paragraph(
               [c EXCEPT !.current_paragraph_index = r.last_index,
                         !.nof_wraparounds = r.last_nof_wraparounds,
                         !.metadata_at_index_evaluated = FALSE], hh)
    IN IF e.err # "none" THEN Outcome(e.c, hh, e.err, 0, <<>>, r.attrs, <<>>)
       ELSE Outcome(e.c, hh, "none", 0, <<r.nof_chars>>, r.attrs, <<>>)

output_rewind_paragraph(c0, hh) ==
  IF ~c0.validation_disabled /\ ~validate_outputhistory(c0, hh)
  THEN Invalid(c0, hh)
  ELSE IF hh.size = 0 THEN Outcome(c0, hh, "none", -1, <<>>, <<>>, <<>>)
  ELSE IF c0.found_end_of_buffer
  THEN Outcome(c0, hh, "none", 1, <<>>, <<>>, <<>>)
  ELSE IF Dangling(c0, hh) \/ ~Readable(hh, c0.current_paragraph_index)
  THEN Undefined(c0, hh)
  ELSE
    LET index == c0.current_paragraph_index
        nw == c0.nof_wraparounds
    IN
    IF c0.first_iteration_done THEN
      LET c1 == [c0 EXCEPT !.rewound_paragraph_was_newline_terminated = TRUE]
          d1 == IF ~c0.dont_skip_newline
                THEN decrement_buffer_pointer(hh, index, nw)
                ELSE [ptr |-> index, nw |-> nw]
          c2 == [c1 EXCEPT !.dont_skip_newline = FALSE]
      IN
      IF d1.ptr = NULLP THEN Outcome(c1, hh, "none", -3, <<>>, <<>>, <<>>)
      ELSE IF hh.buffer[d1.ptr] # Z_UCS_NEWLINE
      THEN Outcome(c2, hh, "none", -4, <<>>, <<>>, <<>>)
      ELSE
        LET d2 == decrement_buffer_pointer(hh, d1.ptr, d1.nw)
            c3 == [c2 EXCEPT !.current_paragraph_index = d1.ptr,
                             !.nof_wraparounds = d1.nw]
        IN
        IF d2.ptr = NULLP
        THEN Outcome([c3 EXCEPT !.found_end_of_buffer = TRUE], hh, "none", 0,
                     <<>>, <<>>, <<>>)
        ELSE IF hh.buffer[d2.ptr] = Z_UCS_NEWLINE
        THEN Outcome(c3, hh, "none", 0, <<>>, <<>>, <<>>)
        ELSE rewind_walk(c2, hh, d2.ptr, d2.nw)
    ELSE IF hh.buffer[index] = Z_UCS_NEWLINE
    THEN Outcome([c0 EXCEPT !.dont_skip_newline = TRUE,
                            !.first_iteration_done = TRUE,
                            !.metadata_at_index_evaluated = FALSE,
                            !.rewound_paragraph_was_newline_terminated = TRUE],
                 hh, "none", 0, <<0>>, <<>>, <<>>)
    ELSE rewind_walk(
           [c0 EXCEPT !.dont_skip_newline = FALSE,
                      !.rewound_paragraph_was_newline_terminated = FALSE],
           hh, index, nw)

\* ------------------------------------------------------------------------
\* alter_last_paragraph_attributes / is_output_at_frontindex
\* ------------------------------------------------------------------------
\* if (++output_ptr > h->z_history_buffer_end) output_ptr = start
IncrementPointer(hh, p) == IF p + 1 > hh.size - 1 THEN 0 ELSE p + 1

alter_last_paragraph_attributes(c, hh, paragraph_attr1, paragraph_attr2) ==
  IF ~validate_outputhistory(c, hh) THEN Invalid(c, hh)
  ELSE IF c.last_paragraph_attribute_index = NULLP
  THEN Outcome(c, hh, "none", -1, <<>>, <<>>, <<>>)
  ELSE
    LET index == c.last_paragraph_attribute_index
        index2 == IncrementPointer(hh, index)
    IN Outcome(c,
         [hh EXCEPT !.buffer =
            [@ EXCEPT ![index] = paragraph_attr1 + HISTORY_METADATA_DATA_OFFSET,
                      ![index2] = paragraph_attr2 + HISTORY_METADATA_DATA_OFFSET]],
         "none", 0, <<>>, <<>>, <<>>)

\* The value returned is 1 for true and 0 for false.
is_output_at_frontindex(c, hh) ==
  IF ~c.validation_disabled /\ ~validate_outputhistory(c, hh)
  THEN Invalid(c, hh)
  ELSE Outcome(c, hh, "none",
         IF c.block = hh.block /\ c.current_paragraph_index = hh.front_index
         THEN 1 ELSE 0, <<>>, <<>>, <<>>)

\* ------------------------------------------------------------------------
\* output_repeat_paragraphs
\* ------------------------------------------------------------------------
\* The while (n > 0) loop.  "buf" is output_buf[0 .. buf_index), "calls" the
\* calls made to output->target so far.
RECURSIVE repeat_loop(_, _, _, _, _, _, _, _)
repeat_loop(c, hh, output_ptr, n, buf, calls, include_metadata, fuel) ==
  LET stop(e, nn, cs) == [c |-> c, output_ptr |-> output_ptr, n |-> nn,
                          calls |-> cs, err |-> e]
  IN
  IF n <= 0 THEN stop("none", n, calls)
  ELSE IF fuel = 0 THEN stop("HANG", n, calls)
  ELSE
    LET u == hh.buffer[output_ptr]
        n1 == IF u = Z_UCS_NEWLINE THEN n - 1 ELSE n
        flushed == Append(calls, <<"z_ucs_output", buf>>)
        p1 == IncrementPointer(hh, output_ptr)
        p2 == IncrementPointer(hh, p1)
        p3 == IncrementPointer(hh, p2)
        metadata_type == hh.buffer[p1]
        parameter == hh.buffer[p2] - HISTORY_METADATA_DATA_OFFSET
        parameter2 == hh.buffer[p3] - HISTORY_METADATA_DATA_OFFSET
        told(call) == IF include_metadata THEN Append(flushed, call)
                      ELSE flushed
    IN
    IF Len(buf) = REPEAT_PARAGRAPH_BUF_SIZE - 1 \/ n1 < 1
       \/ u = HISTORY_METADATA_ESCAPE \/ output_ptr = hh.front_index
    THEN
      IF output_ptr = hh.front_index THEN stop("none", n1, flushed)
      ELSE IF n1 < 1 THEN stop("none", n1, flushed)
      ELSE IF u # HISTORY_METADATA_ESCAPE
      THEN repeat_loop(c, hh, p1, n1, <<u>>, flushed, include_metadata,
                       fuel - 1)
      ELSE IF metadata_type = HISTORY_METADATA_TYPE_FONT
      THEN repeat_loop([c EXCEPT !.font_at_index = parameter], hh, p3, n1,
                       <<>>, told(<<"set_font", parameter>>),
                       include_metadata, fuel - 1)
      ELSE IF metadata_type = HISTORY_METADATA_TYPE_STYLE
      THEN repeat_loop([c EXCEPT !.style_at_index = parameter], hh, p3, n1,
                       <<>>, told(<<"set_text_style", parameter>>),
                       include_metadata, fuel - 1)
      ELSE IF metadata_type = HISTORY_METADATA_TYPE_COLOUR
      THEN repeat_loop([c EXCEPT !.foreground_at_index = parameter,
                                 !.background_at_index = parameter2],
                       hh, IncrementPointer(hh, p3), n1, <<>>,
                       told(<<"set_colour", parameter, parameter2>>),
                       include_metadata, fuel - 1)
      ELSE IF metadata_type = HISTORY_METADATA_TYPE_PARAGRAPHATTRIBUTE
      THEN repeat_loop([c EXCEPT !.last_paragraph_attribute_index = p2],
                       hh, IncrementPointer(hh, p3), n1, <<>>, flushed,
                       include_metadata, fuel - 1)
      ELSE stop("INVALID_PARAMETER_TYPE", n1, flushed)
    ELSE repeat_loop(c, hh, p1, n1, Append(buf, u), calls, include_metadata,
                     fuel - 1)

output_repeat_paragraphs(c0, hh, n, include_metadata, advance_history_pointer) ==
  IF ~c0.validation_disabled /\ ~validate_outputhistory(c0, hh)
  THEN Invalid(c0, hh)
  ELSE IF Dangling(c0, hh) \/ ~Readable(hh, c0.current_paragraph_index)
  THEN Undefined(c0, hh)
  ELSE
    LET e == IF include_metadata THEN evaluate_metadata_for_paragraph(c0, hh)
             ELSE [c |-> c0, err |-> "none"]
        calls0 == << <<"set_font", e.c.font_at_index>>,
                     <<"set_text_style", e.c.style_at_index>>,
                     <<"set_colour", e.c.foreground_at_index,
                       e.c.background_at_index>> >>
        c1 == IF advance_history_pointer
              THEN [e.c EXCEPT !.found_end_of_buffer = FALSE] ELSE e.c
        r == IF c0.current_paragraph_index = hh.front_index
             THEN [c |-> c1, output_ptr |-> c0.current_paragraph_index,
                   n |-> -1, calls |-> calls0, err |-> "none"]
             ELSE repeat_loop(c1, hh, c0.current_paragraph_index, n, <<>>,
                              calls0, include_metadata, 2 * hh.size + 4)
        c2 == IF ~advance_history_pointer THEN r.c
              ELSE IF r.output_ptr # hh.front_index
              THEN [r.c EXCEPT !.current_paragraph_index = r.output_ptr + 1]
              ELSE [r.c EXCEPT
                      !.current_paragraph_index = r.output_ptr,
                      !.first_iteration_done = FALSE,
                      !.rewound_paragraph_was_newline_terminated =
                         (hh.buffer[r.output_ptr] = Z_UCS_NEWLINE)]
    IN
    IF e.err # "none" THEN Outcome(e.c, hh, e.err, 0, <<>>, <<>>, <<>>)
    ELSE IF r.err # "none" THEN Outcome(r.c, hh, r.err, 0, <<>>, <<>>, r.calls)
    ELSE Outcome(c2, hh, "none", r.n, <<>>, <<>>, r.calls)

\* ------------------------------------------------------------------------
\* remember_history_output_position / restore_history_output_position
\* ------------------------------------------------------------------------
\* The saved_* fields; there is no saved_dont_skip_newline, and what is
\* kept under that name here is what the flag was when the position was
\* remembered, which no operation reads.
remember_history_output_position(c, hh) ==
  IF ~c.validation_disabled /\ ~validate_outputhistory(c, hh)
  THEN Invalid(c, hh)
  ELSE Outcome(
         [c EXCEPT !.saved = <<
            [ current_paragraph_index |-> c.current_paragraph_index,
              nof_wraparounds |-> c.nof_wraparounds,
              found_end_of_buffer |-> c.found_end_of_buffer,
              rewound_paragraph_was_newline_terminated |-> c.rewound_paragraph_was_newline_terminated,
              first_iteration_done |-> c.first_iteration_done,
              metadata_at_index_evaluated |-> c.metadata_at_index_evaluated,
              font_at_index |-> c.font_at_index,
              style_at_index |-> c.style_at_index,
              foreground_at_index |-> c.foreground_at_index,
              background_at_index |-> c.background_at_index,
              last_rewinded_paragraphs_block_index |-> c.last_rewinded_paragraphs_block_index,
              last_used_metadata_state_font |-> c.last_used_metadata_state_font,
              last_used_metadata_state_style |-> c.last_used_metadata_state_style,
              last_used_metadata_state_foreground |-> c.last_used_metadata_state_foreground,
              last_used_metadata_state_background |-> c.last_used_metadata_state_background,
              dont_skip_newline |-> c.dont_skip_newline ] >>],
         hh, "none", 0, <<>>, <<>>, <<>>)

\* output->nof_wraparounds is assigned from itself, not from the saved
\* value.  Before the first remember the saved_* fields are uninitialised.
restore_history_output_position(c, hh) ==
  IF ~c.validation_disabled /\ ~validate_outputhistory(c, hh)
  THEN Invalid(c, hh)
  ELSE IF c.saved = <<>> THEN Undefined(c, hh)
  ELSE Outcome(
         [c EXCEPT
            !.current_paragraph_index = c.saved[1].current_paragraph_index,
            !.nof_wraparounds = c.nof_wraparounds,
            !.found_end_of_buffer = c.saved[1].found_end_of_buffer,
            !.rewound_paragraph_was_newline_terminated = c.saved[1].rewound_paragraph_was_newline_terminated,
            !.first_iteration_done = c.saved[1].first_iteration_done,
            !.metadata_at_index_evaluated = c.saved[1].metadata_at_index_evaluated,
            !.font_at_index = c.saved[1].font_at_index,
            !.style_at_index = c.saved[1].style_at_index,
            !.foreground_at_index = c.saved[1].foreground_at_index,
            !.background_at_index = c.saved[1].background_at_index,
            !.last_rewinded_paragraphs_block_index = c.saved[1].last_rewinded_paragraphs_block_index,
            !.last_used_metadata_state_font = c.saved[1].last_used_metadata_state_font,
            !.last_used_metadata_state_style = c.saved[1].last_used_metadata_state_style,
            !.last_used_metadata_state_foreground = c.saved[1].last_used_metadata_state_foreground,
            !.last_used_metadata_state_background = c.saved[1].last_used_metadata_state_background],
         hh, "none", 0, <<>>, <<>>, <<>>)

\* ------------------------------------------------------------------------
\* The inputs of the model
\* ------------------------------------------------------------------------
\* (maximum_buffer_size, buffer_increment_size) given to create_outputhistory
Configurations == {<<3, 2>>, <<6, 4>>, <<64, 16>>}

\* the state given to create_outputhistory: white on black, font 1, roman
CreateState == [font |-> 1, style |-> 0, foreground |-> 9, background |-> 2]

\* z_ucs strings given to store_z_ucs_output_in_history
Texts == { <<CH>>, <<CH, Z_UCS_NEWLINE>>,
           <<CH, Z_UCS_NEWLINE, CH, Z_UCS_NEWLINE>>,
           <<CH, CH, CH, CH, CH, Z_UCS_NEWLINE>> }

\* (type, parameter 1, parameter 2) given to store_metadata_in_history
MetadataCalls ==
  { <<HISTORY_METADATA_TYPE_FONT, 4, 0>>,
    <<HISTORY_METADATA_TYPE_FONT, -13, 0>>,
    <<HISTORY_METADATA_TYPE_STYLE, 2, 0>>,
    <<HISTORY_METADATA_TYPE_COLOUR, 4, 6>>,
    <<HISTORY_METADATA_TYPE_COLOUR, 99, 0>>,
    <<HISTORY_METADATA_TYPE_PARAGRAPHATTRIBUTE, 1, 2>>,
    <<HISTORY_METADATA_TYPE_PARAGRAPHATTRIBUTE, -3, 2>> }

RemoveCounts == {1, 2}

\* what realloc may do
ReallocOutcomes ==
  { [ok |-> FALSE, moved |-> FALSE, fill |-> HISTORY_METADATA_ESCAPE] }
  \cup [ok : {TRUE}, moved : BOOLEAN,
        fill : {HISTORY_METADATA_ESCAPE, Z_UCS_NEWLINE}]

\* The writer's calls while a reader is at work.
ReaderTexts == { <<CH, Z_UCS_NEWLINE>>,
                 <<CH, Z_UCS_NEWLINE, CH, Z_UCS_NEWLINE>> }

ReaderMetadataCalls ==
  { <<HISTORY_METADATA_TYPE_FONT, 4, 0>>,
    <<HISTORY_METADATA_TYPE_PARAGRAPHATTRIBUTE, 1, 2>> }

ReaderRemoveCounts == {1}

ReaderReallocOutcomes ==
  { [ok |-> TRUE, moved |-> FALSE, fill |-> HISTORY_METADATA_ESCAPE],
    [ok |-> TRUE, moved |-> TRUE, fill |-> Z_UCS_NEWLINE] }

\* (n, include_metadata, advance_history_pointer) of output_repeat_paragraphs
RepeatCalls == { <<1, TRUE, TRUE>>, <<1, FALSE, FALSE>>, <<2, TRUE, TRUE>> }

\* (paragraph_attr1, paragraph_attr2) of alter_last_paragraph_attributes
AlterCalls == { <<5, 6>> }

\* ------------------------------------------------------------------------
\* The state machine
\* ------------------------------------------------------------------------
\* A call as "last" keeps it: "before" is the reader's
\* current_paragraph_index when the call was made.
Call(op, arg, ret, char_count, attrs, calls, before) ==
  [ op |-> op, arg |-> arg, ret |-> ret, char_count |-> char_count,
    attrs |-> attrs, calls |-> calls, before |-> before ]

\* The state after create_outputhistory with one of the configurations.
InitWith(configurations) ==
  /\ \E c \in configurations :
       h = create_outputhistory(c[1], c[2], CreateState.foreground,
             CreateState.background, CreateState.font, CreateState.style)
  /\ out = <<>>
  /\ err = "none"
  /\ removed = <<>>
  /\ emitted_state = CreateState
  /\ stream = <<>>
  /\ records = <<>>
  /\ paragraph_removal_function \in BOOLEAN
  /\ little_endian \in BOOLEAN
  /\ last = Call("create", <<>>, 0, <<>>, <<>>, <<>>, NULLP)
  /\ nops = 0
  /\ nreads = 0

Init == InitWith(Configurations)

Now == Machine(h, err, removed, emitted_state, stream, records,
               paragraph_removal_function, little_endian)

\* the process is alive and the budget of writer calls is not used up
Running(budget) == err = "none" /\ nops < budget

\* A call of the writer ends with the machine in state m.
Wrote(m, op, arg) ==
  /\ h' = m.h
  /\ err' = m.err
  /\ removed' = m.removed
  /\ emitted_state' = m.emitted_state
  /\ stream' = m.stream
  /\ records' = m.records
  /\ last' = Call(op, arg, m.ret, <<>>, <<>>, <<>>, NULLP)
  /\ nops' = nops + 1
  /\ UNCHANGED <<out, paragraph_removal_function, little_endian, nreads>>

StoreTextFrom(texts, outcomes, budget) ==
  /\ Running(budget)
  /\ \E text \in texts, o \in outcomes :
       Wrote([store_z_ucs_output_in_history(Now, text, o) EXCEPT !.ret = 0],
             "store_text", text)

StoreMetadataFrom(calls, outcomes, budget) ==
  /\ Running(budget)
  /\ \E c \in calls, o \in outcomes :
       Wrote(store_metadata_in_history(Now, c[1], c[2], c[3], o),
             "store_metadata", c)

RemoveCharsFrom(counts, budget) ==
  /\ Running(budget)
  /\ \E n \in counts :
       Wrote(remove_chars_from_history(Now, n), "remove_chars", <<n>>)

StoreText == StoreTextFrom(Texts, ReallocOutcomes, MaxOps)

StoreMetadata == StoreMetadataFrom(MetadataCalls, ReallocOutcomes, MaxOps)

RemoveChars == RemoveCharsFrom(RemoveCounts, MaxOps)

NextStore == StoreText \/ StoreMetadata \/ RemoveChars

\* The writer alone.
SpecStore == Init /\ [][NextStore]_vars

\* A call of the reader ends with outcome r.
Read(r, op, arg) ==
  /\ out' = <<r.c>>
  /\ h' = r.h
  /\ err' = r.err
  /\ last' = Call(op, arg, r.ret, r.char_count, r.attrs, r.calls,
                  out[1].current_paragraph_index)
  /\ nreads' = nreads + 1
  /\ UNCHANGED <<removed, emitted_state, stream, records,
                 paragraph_removal_function, little_endian, nops>>

Reading == err = "none" /\ out # <<>> /\ nreads < MaxReads

\* init_history_output, once in a run.
InitOutput ==
  /\ err = "none"
  /\ out = <<>>
  /\ \E from_bufferback \in BOOLEAN, without_validation \in BOOLEAN,
        uninitialised \in BOOLEAN :
       /\ out' = init_history_output(h, from_bufferback, without_validation,
                                     uninitialised)
       /\ last' = Call("init", <<from_bufferback, without_validation>>,
                       Len(out'), <<>>, <<>>, <<>>, NULLP)
  /\ UNCHANGED <<h, err, removed, emitted_state, stream, records,
                 paragraph_removal_function, little_endian, nops, nreads>>

Rewind ==
  /\ Reading
  /\ Read(output_rewind_paragraph(out[1], h), "rewind", <<>>)

Repeat ==
  /\ Reading
  /\ \E a \in RepeatCalls :
       Read(output_repeat_paragraphs(out[1], h, a[1], a[2], a[3]),
            "repeat", a)

Alter ==
  /\ Reading
  /\ \E a \in AlterCalls :
       Read(alter_last_paragraph_attributes(out[1], h, a[1], a[2]),
            "alter", a)

AtFront ==
  /\ Reading
  /\ Read(is_output_at_frontindex(out[1], h), "at_front", <<>>)

Remember ==
  /\ Reading
  /\ Read(remember_history_output_position(out[1], h), "remember", <<>>)

Restore ==
  /\ Reading
  /\ Read(restore_history_output_position(out[1], h), "restore", <<>>)

WriteText == StoreTextFrom(ReaderTexts, ReaderReallocOutcomes, MaxWrites)

WriteMetadata ==
  StoreMetadataFrom(ReaderMetadataCalls, ReaderReallocOutcomes, MaxWrites)

Unwrite == RemoveCharsFrom(ReaderRemoveCounts, MaxWrites)

ReaderCall == Rewind \/ Repeat \/ Alter \/ AtFront \/ Remember \/ Restore

Next == WriteText \/ WriteMetadata \/ Unwrite \/ InitOutput \/ ReaderCall

\* The writer and one reader, on a history of at most 6 units that has no
\* paragraph_removal_function, on a little-endian machine (no call of this
\* specification is as long as the whole buffer, so the byte order is
\* never looked at).
InitReader ==
  Init /\ h.maximum_size = 6 /\ ~paragraph_removal_function /\ little_endian

Spec == InitReader /\ [][Next]_vars

\* ------------------------------------------------------------------------
\* What the properties are stated over
\* ------------------------------------------------------------------------
front_state(hh) ==
  [ font |-> hh.front_index_font, style |-> hh.front_index_style,
    foreground |-> hh.front_index_foreground,
    background |-> hh.front_index_background ]

back_state(hh) ==
  [ font |-> hh.back_index_font, style |-> hh.back_index_style,
    foreground |-> hh.back_index_foreground,
    background |-> hh.back_index_background ]

\* The units of the live region: from the back index to the front index.
LiveUnits(hh) ==
  IF hh.nof_wraparounds = 0 THEN hh.front_index - hh.back_index
  ELSE hh.size - (hh.back_index - hh.front_index)

\* The units of the stream that are no longer in the live region.
DroppedUnits ==
  IF LiveUnits(h) < 0 THEN Len(stream)
  ELSE IF Len(stream) > LiveUnits(h) THEN Len(stream) - LiveUnits(h)
  ELSE 0

\* Record r has left the live region with all its units; its first unit
\* has left it; all its units are in it.
HasLeft(r) == r.at + RecordLen(r.type) - 1 <= DroppedUnits

LeftInPart(r) == r.at <= DroppedUnits

IsLive(r) == r.at > DroppedUnits

IsStateRecord(r) == r.type \in { HISTORY_METADATA_TYPE_FONT,
                                 HISTORY_METADATA_TYPE_STYLE,
                                 HISTORY_METADATA_TYPE_COLOUR }

IsParagraphAttribute(r) == r.type = HISTORY_METADATA_TYPE_PARAGRAPHATTRIBUTE

\* The state recs amount to, applied in order to st.
RECURSIVE ApplyRecords(_, _)
ApplyRecords(st, recs) ==
  IF recs = <<>> THEN st
  ELSE ApplyRecords(
         ApplyRecord(st, Head(recs).type, Head(recs).p1, Head(recs).p2),
         Tail(recs))

\* The decoded parameters of recs, as paragraph_removal_function is given
\* them.
RECURSIVE Parameters(_)
Parameters(recs) ==
  IF recs = <<>> THEN <<>>
  ELSE << <<Head(recs).p1, Head(recs).p2>> >> \o Parameters(Tail(recs))

\* Record r is in the stream with all its units, and none of its
\* parameters is stored as the escape or the newline unit.
Intact(r) == r.units = RecordLen(r.type)

Clear(r) ==
  /\ r.p1 + HISTORY_METADATA_DATA_OFFSET
        \notin {HISTORY_METADATA_ESCAPE, Z_UCS_NEWLINE}
  /\ TwoParameters(r.type) =>
        r.p2 + HISTORY_METADATA_DATA_OFFSET
          \notin {HISTORY_METADATA_ESCAPE, Z_UCS_NEWLINE}

\* The live region holds the last units of the stream, oldest at the back
\* index.
Aligned ==
  /\ LiveUnits(h) >= 0
  /\ LiveUnits(h) <= Len(stream)
  /\ \A k \in 1..LiveUnits(h) :
        h.buffer[(h.back_index + k - 1) % h.size]
          = stream[Len(stream) - LiveUnits(h) + k]

\* The process runs, every record stored is intact and clear, and the live
\* region holds the last units stored.
Sound ==
  /\ err = "none"
  /\ \A i \in 1..Len(records) : Intact(records[i]) /\ Clear(records[i])
  /\ Aligned

\* ------------------------------------------------------------------------
\* C3
\* ------------------------------------------------------------------------
\* C3 as claimed: after any sequence of store_text and store_metadata calls
\* the front state (font, style, foreground, background) is the state given
\* at create with every FONT, STYLE and COLOUR record emitted applied in
\* order, both colour parameters included.
C3_FrontStateIsEmittedState ==
  Sound => front_state(h) = emitted_state

\* ------------------------------------------------------------------------
\* C4
\* ------------------------------------------------------------------------
\* C4 as claimed: the back state is the state given at create with the
\* decoded parameters of every FONT, STYLE and COLOUR record that has left
\* the live region applied in order, and no record still in the live region
\* has changed it.  A record the back index is inside of counts either way.
C4_BackStateIsDecodedDrained ==
  Sound =>
    \/ back_state(h) = ApplyRecords(CreateState, SelectSeq(records, HasLeft))
    \/ back_state(h) = ApplyRecords(CreateState, SelectSeq(records, LeftInPart))

\* ------------------------------------------------------------------------
\* C5
\* ------------------------------------------------------------------------
\* C5 as claimed: with a paragraph_removal_function registered, the calls
\* made to it are, in order, the decoded parameters of the PARA_ATTR records
\* that have left the live region, one call for each, and none for a record
\* that is still in the live region.  A record the back index is inside of
\* counts either way.
C5_RemovalCallsAreDroppedRecords ==
  (Sound /\ paragraph_removal_function) =>
    \/ removed = Parameters(SelectSeq(records,
                   LAMBDA r : IsParagraphAttribute(r) /\ HasLeft(r)))
    \/ removed = Parameters(SelectSeq(records,
                   LAMBDA r : IsParagraphAttribute(r) /\ LeftInPart(r)))

\* ------------------------------------------------------------------------
\* C6
\* ------------------------------------------------------------------------
\* the k-th unit of the live region, counted from the back index
LiveUnit(k) == h.buffer[(h.back_index + k - 1) % h.size]

\* C6 as claimed: every unit of value 0 inside the live region is the first
\* unit of a metadata record whose type and parameter units are all inside
\* the live region.
C6_EscapeStartsARecord ==
  (err = "none" /\ Aligned) =>
    \A k \in 1..LiveUnits(h) :
      LiveUnit(k) = HISTORY_METADATA_ESCAPE =>
        \E i \in 1..Len(records) :
          /\ records[i].at = DroppedUnits + k
          /\ Intact(records[i])
          /\ records[i].at + RecordLen(records[i].type) - 1 <= Len(stream)

\* ------------------------------------------------------------------------
\* C7
\* ------------------------------------------------------------------------
\* the last n units stored
LastStored(n) == SubSeq(stream, Len(stream) - n + 1, Len(stream))

\* C7 as claimed: when store_metadata_in_history returns 0 and has placed
\* the record in the buffer, each parameter unit placed is the parameter
\* plus 13 and is neither the newline unit nor the escape unit.
C7_ParameterUnitsAreClear ==
  ( /\ err = "none"
    /\ last.op = "store_metadata"
    /\ last.ret = 0
    /\ records # <<>>
    /\ Intact(records[Len(records)]) ) =>
    LET n == RecordLen(last.arg[1])
        placed == LastStored(n)
    IN /\ placed[3] = last.arg[2] + HISTORY_METADATA_DATA_OFFSET
       /\ placed[3] \notin {Z_UCS_NEWLINE, HISTORY_METADATA_ESCAPE}
       /\ n = 4 =>
            /\ placed[4] = last.arg[3] + HISTORY_METADATA_DATA_OFFSET
            /\ placed[4] \notin {Z_UCS_NEWLINE, HISTORY_METADATA_ESCAPE}

\* ------------------------------------------------------------------------
\* C8
\* ------------------------------------------------------------------------
\* C8 as claimed: get_buffer_space_used is front - back while the buffer
\* has not wrapped and size - (back - front) once it has.
C8_SpaceUsedIsLiveUnits ==
  err = "none" => get_buffer_space_used(h) = LiveUnits(h)

\* ------------------------------------------------------------------------
\* C9
\* ------------------------------------------------------------------------
\* The run of Z_HISTORY_METADATA_STATE_BLOCK_SIZE units of the stream that
\* starts at s holds a record of type t.
RunHolds(s, t) ==
  \E i \in 1..Len(records) :
    /\ records[i].type = t
    /\ records[i].at >= s
    /\ records[i].at + RecordLen(t) - 1
         <= s + Z_HISTORY_METADATA_STATE_BLOCK_SIZE - 1

\* C9 as claimed: every run of Z_HISTORY_METADATA_STATE_BLOCK_SIZE units
\* inside the live region holds a FONT, a STYLE and a COLOUR record.
C9_EveryRunHoldsAStateBlock ==
  Sound =>
    \A s \in (DroppedUnits + 1)
               .. (Len(stream) - Z_HISTORY_METADATA_STATE_BLOCK_SIZE + 1) :
      /\ RunHolds(s, HISTORY_METADATA_TYPE_FONT)
      /\ RunHolds(s, HISTORY_METADATA_TYPE_STYLE)
      /\ RunHolds(s, HISTORY_METADATA_TYPE_COLOUR)

\* ------------------------------------------------------------------------
\* C1
\* ------------------------------------------------------------------------
\* The store's wrap count or front index is not what cursor c captured.
Stale(c, hh) ==
  \/ hh.nof_wraparounds # c.validity_wraparounds
  \/ hh.front_index # c.validity_frontindex

ReaderOps == {"rewind", "repeat", "alter", "at_front", "remember", "restore"}

\* C1: a call of rewind, repeat, remember, restore, at_front or alter on a
\* cursor created with validation, made when the store's wrap count or
\* front index differs from what the cursor captured, does not return: the
\* process ends with HISTORYOUTPUT_NO_LONGER_VALID.
C1_StaleCursorFails ==
  [][ ( /\ nreads' = nreads + 1
        /\ last'.op \in ReaderOps
        /\ ~out[1].validation_disabled
        /\ Stale(out[1], h) )
      => err' = "HISTORYOUTPUT_NO_LONGER_VALID" ]_vars

\* A write has moved the front index or the wrap count away from what the
\* validated cursor captured, and the reader's call ended the process.
C1_Witness ==
  /\ out # <<>>
  /\ last.op \in ReaderOps
  /\ ~out[1].validation_disabled
  /\ Stale(out[1], h)
  /\ err = "HISTORYOUTPUT_NO_LONGER_VALID"

\* ------------------------------------------------------------------------
\* C2
\* ------------------------------------------------------------------------
\* C2 as claimed: no call on a cursor created with
\* Z_HISTORY_OUTPUT_WITHOUT_VALIDATION ends the process with
\* HISTORYOUTPUT_NO_LONGER_VALID.
C2_UnvalidatedCursorNeverInvalid ==
  (out # <<>> /\ out[1].validation_disabled)
    => err # "HISTORYOUTPUT_NO_LONGER_VALID"

\* ------------------------------------------------------------------------
\* C10
\* ------------------------------------------------------------------------
\* C10 as claimed: on a cursor that is valid, output_rewind_paragraph
\* returning 0 and then output_repeat_paragraphs(1, true, true) returning
\* leave current_paragraph_index where it was before the rewind.
C10_RewindThenRepeatReturns ==
  [][ ( /\ last.op = "rewind"
        /\ last.ret = 0
        /\ nreads' = nreads + 1
        /\ last'.op = "repeat"
        /\ last'.arg = <<1, TRUE, TRUE>>
        /\ err' = "none"
        /\ validate_outputhistory(out[1], h) )
      => out'[1].current_paragraph_index = last.before ]_vars

\* ------------------------------------------------------------------------
\* C11
\* ------------------------------------------------------------------------
\* The units of the records recs that were stored.
RECURSIVE RecordUnits(_)
RecordUnits(recs) ==
  IF recs = <<>> THEN 0 ELSE recs[1].units + RecordUnits(Tail(recs))

\* The text units among the units stored.
TextUnits(st, recs) == Len(st) - RecordUnits(recs)

\* C11 as claimed: when remove_chars_from_history(n) returns 0, exactly n
\* text units have been taken back and every metadata record is still
\* there, complete.
C11_RemoveTakesTextOnly ==
  [][ ( /\ Sound
        /\ last'.op = "remove_chars"
        /\ nops' = nops + 1
        /\ last'.ret = 0
        /\ err' = "none" )
      => /\ records' = records
         /\ TextUnits(stream', records') = TextUnits(stream, records) - last'.arg[1] ]_vars

\* C12
\* The last k units of data.
LastUnits(data, k) == SubSeq(data, Len(data) - k + 1, Len(data))

\* C12 as claimed: after store_z_ucs_output_in_history with a text of at
\* least z_history_maximum_buffer_size units the buffer has its maximum
\* size and holds the last units of the text in order, the back index is
\* the buffer's start, the buffer is full (the front index is at its end)
\* and the wrap-around count has grown by one.
C12_WholeBufferWriteKeepsTail ==
  [][ ( /\ last'.op = "store_text" /\ nops' = nops + 1
        /\ Len(last'.arg) >= h.maximum_size
        /\ err' = "none" )
      => /\ h'.size = h.maximum_size
         /\ \A i \in 1..h.maximum_size :
              h'.buffer[i - 1] = LastUnits(last'.arg, h.maximum_size)[i]
         /\ h'.back_index = 0
         /\ h'.front_index \in {0, h'.size - 1, h'.size}
         /\ h'.nof_wraparounds = (h.nof_wraparounds + 1) % UINT_MODULUS ]_vars

\* C13
\* The live units from offset i up to the front index.
UnitsAhead(hh, i) ==
  IF i = hh.back_index THEN LiveUnits(hh) ELSE (hh.front_index - i) % hh.size

\* The text units of the paragraph that begins at offset i: the units up
\* to the next newline or the front index that belong to no record.
RECURSIVE ParagraphChars(_, _, _)
ParagraphChars(hh, i, ahead) ==
  IF ahead <= 0 \/ hh.buffer[i] = Z_UCS_NEWLINE THEN 0
  ELSE IF hh.buffer[i] = HISTORY_METADATA_ESCAPE
  THEN ParagraphChars(hh, (i + RecordLen(hh.buffer[(i + 1) % hh.size])) % hh.size, ahead - RecordLen(hh.buffer[(i + 1) % hh.size]))
  ELSE 1 + ParagraphChars(hh, (i + 1) % hh.size, ahead - 1)

\* output_rewind_paragraph has returned 0 in this step.
Rewound ==
  /\ last'.op = "rewind" /\ nreads' = nreads + 1
  /\ last'.ret = 0 /\ err' = "none"

\* The history holds one paragraph, stored as text that ends in its
\* newline, and the reader has just got a cursor that starts at the front.
OneParagraphFromFront ==
  /\ Sound /\ records = <<>> /\ Len(stream) >= 2
  /\ LiveUnits(h) = Len(stream)
  /\ \A k \in 1..Len(stream) :
       (stream[k] = Z_UCS_NEWLINE) <=> (k = Len(stream))
  /\ last.op = "init" /\ last.arg[1] = FALSE /\ out # <<>>

\* C13 as claimed: whenever output_rewind_paragraph returns 0, char_count
\* is the number of text units of the paragraph the cursor has landed on
\* (its newline and its metadata units not counted); and the first rewind
\* of a cursor from the front over one stored paragraph such as "Hello\n"
\* returns 0 with the paragraph's length as char_count and
\* rewound_paragraph_was_newline_terminated set.
C13_RewindCountsParagraphText ==
  [][ /\ (Sound /\ Rewound) =>
           last'.char_count =
             << ParagraphChars(h', out'[1].current_paragraph_index, UnitsAhead(h', out'[1].current_paragraph_index)) >>
      /\ (OneParagraphFromFront /\ last'.op = "rewind" /\ nreads' = nreads + 1) =>
           /\ last'.ret = 0
           /\ last'.char_count = << Len(stream) - 1 >>
           /\ out'[1].rewound_paragraph_was_newline_terminated ]_vars

\* C14
\* The rendering state a cursor reports for its paragraph.
cursor_state(c) ==
  [ font |-> c.font_at_index, style |-> c.style_at_index,
    foreground |-> c.foreground_at_index,
    background |-> c.background_at_index ]

\* The units of the paragraph that begins at offset i, records included.
RECURSIVE ParagraphSpan(_, _, _)
ParagraphSpan(hh, i, ahead) ==
  IF ahead <= 0 \/ hh.buffer[i] = Z_UCS_NEWLINE THEN 0
  ELSE 1 + ParagraphSpan(hh, (i + 1) % hh.size, ahead - 1)

\* The records stored before place k of the stream.
RecordsBefore(recs, k) == SelectSeq(recs, LAMBDA r : r.at < k)

\* The place in the stream of the unit at offset i of the buffer.
PlaceOf(hh, st, i) == Len(st) - UnitsAhead(hh, i) + 1

\* The state at some place of the paragraph that begins at place s and
\* has span units: the create state with the records before it applied.
StateInParagraph(state, recs, s, span) ==
  \E k \in s..(s + span) : state = ApplyRecords(CreateState, RecordsBefore(recs, k))

\* The writer storing one-unit paragraphs and COLOUR records in a buffer
\* that holds them all, and a reader that rewinds.
MaxColourWrites == 4

ColourTexts == { <<CH, Z_UCS_NEWLINE>> }

ColourCalls == { <<HISTORY_METADATA_TYPE_COLOUR, 4, 2>> }

InitColour ==
  Init /\ h.maximum_size = 64 /\ ~paragraph_removal_function /\ little_endian

StoreParagraph ==
  StoreTextFrom(ColourTexts, ReaderReallocOutcomes, MaxColourWrites)

StoreColour ==
  StoreMetadataFrom(ColourCalls, ReaderReallocOutcomes, MaxColourWrites)

NextColour == StoreParagraph \/ StoreColour \/ InitOutput \/ Rewind

SpecColour == InitColour /\ [][NextColour]_vars

\* C14 as claimed: after output_rewind_paragraph has returned 0 the
\* cursor's font, style, foreground and background are the state given to
\* create_outputhistory with every FONT, STYLE and COLOUR record stored
\* before the text of the paragraph landed on applied in order (a record
\* inside the paragraph may or may not count as before its text).
C14_RewindEvaluatesState ==
  [][ (Sound /\ Rewound) =>
        StateInParagraph(cursor_state(out'[1]), records,
          PlaceOf(h', stream, out'[1].current_paragraph_index),
          ParagraphSpan(h', out'[1].current_paragraph_index, UnitsAhead(h', out'[1].current_paragraph_index))) ]_vars

\* C15
\* The writer on a history of at most 16 units that grows by 16, storing
\* paragraphs that fit and a text of 18 units that does not, and a reader
\* that rewinds.
MaxOverflowWrites == 2

OverflowConfigurations == { <<16, 16>> }

OverflowText ==
  << CH, CH, CH, CH, CH, Z_UCS_NEWLINE, CH, CH, CH, CH, CH, Z_UCS_NEWLINE,
     CH, CH, CH, CH, CH, Z_UCS_NEWLINE >>

OverflowTexts == { SubSeq(OverflowText, 1, 6), OverflowText }

InitOverflow == InitWith(OverflowConfigurations) /\ ~paragraph_removal_function

StoreOverflow ==
  StoreTextFrom(OverflowTexts, ReaderReallocOutcomes, MaxOverflowWrites)

NextOverflow == StoreOverflow \/ InitOutput \/ Rewind

SpecOverflow == InitOverflow /\ [][NextOverflow]_vars

\* The live region holds a whole paragraph behind an earlier newline.
HoldsSecondParagraph ==
  \E j, k \in 1..LiveUnits(h) :
    j < k /\ LiveUnit(j) = Z_UCS_NEWLINE /\ LiveUnit(k) = Z_UCS_NEWLINE

\* C15 as claimed: store_z_ucs_output_in_history of a text of 18 units on
\* a new history with maximum size 16 and increment 16 returns with the
\* buffer grown to 16 units and wrapped and the last 16 units of the text
\* as the live region, the oldest paragraph cut; and the first
\* output_rewind_paragraph of a cursor made with
\* Z_HISTORY_OUTPUT_FROM_BUFFERBACK on a store that holds a whole paragraph
\* behind the cut one returns 0.
C15_OverflowKeepsNewest ==
  [][ /\ ( /\ nops = 0 /\ nops' = 1 /\ last'.op = "store_text"
           /\ last'.arg = OverflowText )
         => /\ err' = "none"
            /\ h'.size = 16
            /\ h'.nof_wraparounds >= 1
            /\ LiveUnits(h') = 16
            /\ \A k \in 1..16 :
                 h'.buffer[(h'.back_index + k - 1) % 16] = LastUnits(OverflowText, 16)[k]
      /\ ( /\ Sound /\ HoldsSecondParagraph
           /\ last.op = "init" /\ last.arg[1] /\ out # <<>>
           /\ last'.op = "rewind" /\ nreads' = nreads + 1 )
         => last'.ret = 0 ]_vars

\* C16
\* store_metadata_in_history has been called with a COLOUR in this step.
StoredColour ==
  /\ last'.op = "store_metadata" /\ nops' = nops + 1
  /\ last'.arg[1] = HISTORY_METADATA_TYPE_COLOUR

\* C16 as claimed: store_metadata_in_history(COLOUR, p1, p2) with p1 or p2
\* outside -2..15 ends the process with INVALID_PARAMETER_TYPE and stores
\* no record; with both inside it returns 0 and appends exactly one COLOUR
\* record of four units.
C16_ColourIsCheckedThenStored ==
  [][ (Sound /\ StoredColour) =>
        IF ColourInRange(last'.arg[2]) /\ ColourInRange(last'.arg[3])
        THEN /\ err' = "none" /\ last'.ret = 0
             /\ stream' = stream \o output_buffer(last'.arg[1], last'.arg[2], last'.arg[3])
             /\ Len(records') = Len(records) + 1
             /\ Intact(records'[Len(records')])
        ELSE /\ err' = "INVALID_PARAMETER_TYPE"
             /\ stream' = stream /\ records' = records ]_vars

\* C17
\* The writer storing one-unit paragraphs and PARAGRAPHATTRIBUTE records in
\* a buffer that holds them all, and a reader that rewinds, repeats and
\* alters the attributes.
MaxAttributeWrites == 3

AttributeCalls == { <<HISTORY_METADATA_TYPE_PARAGRAPHATTRIBUTE, 1, 2>> }

StoreAttribute ==
  StoreMetadataFrom(AttributeCalls, ReaderReallocOutcomes, MaxAttributeWrites)

StoreAttributedParagraph ==
  StoreTextFrom(ColourTexts, ReaderReallocOutcomes, MaxAttributeWrites)

NextAttribute ==
  StoreAttribute \/ StoreAttributedParagraph \/ InitOutput \/ Rewind \/ Repeat \/ Alter

SpecAttribute == InitColour /\ [][NextAttribute]_vars

\* The PARAGRAPHATTRIBUTE records of the paragraph that takes the places
\* s .. s + span - 1 of the stream.
AttributesIn(recs, s, span) ==
  SelectSeq(recs, LAMBDA r : IsParagraphAttribute(r) /\ r.at >= s /\ r.at < s + span)

\* The attribute records of the paragraph cursor c stands on.
AttributesAt(c, hh, st, recs) ==
  AttributesIn(recs, PlaceOf(hh, st, c.current_paragraph_index), ParagraphSpan(hh, c.current_paragraph_index, UnitsAhead(hh, c.current_paragraph_index)))

\* C17 as claimed: a rewind that returns 0 on a paragraph stored behind a
\* PARAGRAPHATTRIBUTE record (a1, a2) reports paragraph_attr1 = a1 and
\* paragraph_attr2 = a2; and alter_last_paragraph_attributes(b1, b2)
\* called next on that cursor returns 0 and has put b1 and b2, offset by
\* 13, in the place of the record's two parameter units.
C17_AttributesReportedAndAltered ==
  [][ /\ (Sound /\ out # <<>> /\ Rewound /\ ~Stale(out[1], h)
            /\ Len(AttributesAt(out'[1], h', stream, records)) = 1)
         => last'.attrs = << AttributesAt(out'[1], h', stream, records)[1].p1,
                             AttributesAt(out'[1], h', stream, records)[1].p2 >>
      /\ (Sound /\ last.op = "rewind" /\ last.ret = 0
            /\ ~Stale(out[1], h)
            /\ Len(AttributesAt(out[1], h, stream, records)) = 1
            /\ last'.op = "alter" /\ nreads' = nreads + 1)
         => /\ last'.ret = 0
            /\ err' = "none"
            /\ \A k \in 1..2 :
                 h'.buffer[(out[1].current_paragraph_index + 1 + k) % h.size]
                   = last'.arg[k] + HISTORY_METADATA_DATA_OFFSET ]_vars

\* C18
\* The fields of cursor c that a remembered position is made of.
Position(c) ==
  [ current_paragraph_index |-> c.current_paragraph_index,
    nof_wraparounds |-> c.nof_wraparounds,
    found_end_of_buffer |-> c.found_end_of_buffer,
    rewound_paragraph_was_newline_terminated |-> c.rewound_paragraph_was_newline_terminated,
    first_iteration_done |-> c.first_iteration_done,
    metadata_at_index_evaluated |-> c.metadata_at_index_evaluated,
    font_at_index |-> c.font_at_index,
    style_at_index |-> c.style_at_index,
    foreground_at_index |-> c.foreground_at_index,
    background_at_index |-> c.background_at_index,
    last_rewinded_paragraphs_block_index |-> c.last_rewinded_paragraphs_block_index,
    last_used_metadata_state_font |-> c.last_used_metadata_state_font,
    last_used_metadata_state_style |-> c.last_used_metadata_state_style,
    last_used_metadata_state_foreground |-> c.last_used_metadata_state_foreground,
    last_used_metadata_state_background |-> c.last_used_metadata_state_background,
    dont_skip_newline |-> c.dont_skip_newline ]

\* C18 as claimed: restore_history_output_position on a valid cursor whose
\* position was remembered, whatever rewinds and repeats were made in
\* between, puts current_paragraph_index, the cursor's nof_wraparounds,
\* found_end_of_buffer, first_iteration_done, dont_skip_newline,
\* rewound_paragraph_was_newline_terminated, metadata_at_index_evaluated,
\* the font, style and colours at the index and the state-block cache back
\* to the remembered values.
C18_RestoreReturnsToRemembered ==
  [][ ( /\ out # <<>> /\ out[1].saved # <<>>
        /\ last'.op = "restore" /\ nreads' = nreads + 1
        /\ err' = "none" )
      => Position(out'[1]) = out[1].saved[1] ]_vars

\* C19
\* C19 as claimed: output_repeat_paragraphs(n, ...) with n >= 0 returns
\* the number r of the requested paragraphs it has not delivered, so
\* 0 <= r <= n, and r = n when the cursor already stands at the front
\* index.
C19_RepeatReturnsUndelivered ==
  [][ ( /\ out # <<>>
        /\ last'.op = "repeat" /\ nreads' = nreads + 1
        /\ last'.arg[1] >= 0 /\ err' = "none" )
      => /\ last'.ret >= 0 /\ last'.ret <= last'.arg[1]
         /\ (out[1].current_paragraph_index = h.front_index)
              => last'.ret = last'.arg[1] ]_vars

\* C20
\* The offset before i, as decrement_buffer_pointer steps inside the buffer.
PreviousIndex(hh, i) == IF i = 0 THEN hh.size - 1 ELSE i - 1

\* C20 as claimed: when output_rewind_paragraph returns 1 its walk has
\* reached the end of the live region without a newline and
\* current_paragraph_index is at the back index; when it returns 0 it has
\* found a newline and current_paragraph_index is the unit directly after
\* that newline.
C20_RewindLandsBehindNewline ==
  [][ ( /\ out # <<>> /\ Sound /\ ~Stale(out[1], h)
        /\ last'.op = "rewind" /\ nreads' = nreads + 1 /\ err' = "none" )
      => /\ (last'.ret = 1) =>
              out'[1].current_paragraph_index = h.back_index
         /\ (last'.ret = 0) =>
              h.buffer[PreviousIndex(h, out'[1].current_paragraph_index)] = Z_UCS_NEWLINE ]_vars

\* ------------------------------------------------------------------------
\* C21: when remove_chars_from_history(n) returns -1, because the walk back
\* from the front would cross the back of the buffer, the store is as it
\* was before the call: front_index, back_index, nof_wraparounds, the
\* front and back state and every unit of the buffer are unchanged.
\* ------------------------------------------------------------------------
C21_FailedRemoveLeavesStore ==
  [][(/\ nops' = nops + 1
      /\ last'.op = "remove_chars"
      /\ last'.ret = -1
      /\ err' = "none")
     => h' = h]_vars

\* A remove that failed on a store that holds text in front of its back.
C21_Witness ==
  /\ last.op = "remove_chars"
  /\ last.ret = -1
  /\ err = "none"
  /\ h.block # 0
  /\ h.front_index # h.back_index
  /\ Len(stream) > 0

\* ------------------------------------------------------------------------
\* C22 as claimed: in every state of a store that has not wrapped
\* (nof_wraparounds = 0) the buffer is linear, the back index is not
\* behind the front index: back_index <= front_index.  This is to hold
\* after every completed call, a store_data_in_history of
\* len >= maximum_size and a successful remove_chars_from_history included.
\* ------------------------------------------------------------------------
C22_UnwrappedBufferIsLinear ==
  (err = "none" /\ h.block # 0 /\ h.nof_wraparounds = 0)
    => h.back_index <= h.front_index

\* ------------------------------------------------------------------------
\* C23 as claimed: once a store has allocated its buffer, the allocated
\* size is never less than 4 units, the length of the largest metadata
\* record, for every maximum size and increment given to
\* create_outputhistory and after every sequence of writes.
\* ------------------------------------------------------------------------
LargestRecord == 4

C23_BufferHoldsLargestRecord ==
  (h.block # 0) => h.size >= LargestRecord

\* ------------------------------------------------------------------------
\* C24: store_data_in_history with fewer units than the maximum size and a
\* buffer that could not be enlarged to hold them.
\* ------------------------------------------------------------------------
\* Writes of one and of five different units to a store of at most six
\* units that grows by four: the second one needs the buffer enlarged.
MaxCutWrites == 3

CutTexts == { <<CH>>, <<CH, CH + 1, CH + 2, CH + 3, Z_UCS_NEWLINE>> }

StoreCutText == StoreTextFrom(CutTexts, ReallocOutcomes, MaxCutWrites)

StoreCutMetadata ==
  StoreMetadataFrom(ReaderMetadataCalls, ReallocOutcomes, MaxCutWrites)

NextCut == StoreCutText \/ StoreCutMetadata

InitCut == InitWith({<<6, 4>>})

SpecCut == InitCut /\ [][NextCut]_vars

\* The k units in front of the front index, in the order of the ring.
UnitsBeforeFront(hh, k) ==
  [j \in 1..k |-> hh.buffer[(hh.front_index + hh.size - k + j - 1) % hh.size]]

Smaller(a, b) == IF a < b THEN a ELSE b

\* r is the store after store_data_in_history(h, data, len, false), which
\* appends no state block.
KeepsTail(data, r) ==
  r.err = "none" =>
    /\ UnitsBeforeFront(r.h, Smaller(Len(data), r.h.size))
         = LastUnits(data, Smaller(Len(data), r.h.size))
    /\ r.stream = stream \o LastUnits(data, Smaller(Len(data), r.h.size))

AddedRecords(rs, r) == SubSeq(r.records, Len(rs) + 1, Len(r.records))

\* r is the store after the text has been written, r1 after the FONT record
\* and r2 after the STYLE record of a state block, f after the call has
\* returned: f holds the state block if the front index of r is in another
\* block than the last one noted, each record with the back-index state
\* of the moment it is stored.
StateBlockFollows(r, r1, r2, f) ==
  (r.err = "none" /\ f.err = "none") =>
    /\ f.h.last_metadata_block_index = BlockOf(r.h.front_index)
    /\ IF BlockOf(r.h.front_index) # r.h.last_metadata_block_index
       THEN /\ Len(AddedRecords(r.records, f)) = 3
            /\ AddedRecords(r.records, f)[1].type = HISTORY_METADATA_TYPE_FONT
            /\ AddedRecords(r.records, f)[1].p1 = r.h.back_index_font
            /\ AddedRecords(r.records, f)[2].type = HISTORY_METADATA_TYPE_STYLE
            /\ AddedRecords(r.records, f)[2].p1 = r1.h.back_index_style
            /\ AddedRecords(r.records, f)[3].type = HISTORY_METADATA_TYPE_COLOUR
            /\ AddedRecords(r.records, f)[3].p1 = r2.h.back_index_foreground
            /\ AddedRecords(r.records, f)[3].p2 = r2.h.back_index_background
       ELSE /\ f.records = r.records
            /\ f.stream = r.stream

\* g is the store after a store_metadata_in_history call.
NoStateBlock(g) ==
  g.err = "none" =>
    /\ Len(g.records) <= Len(records) + 1
    /\ g.h.last_metadata_block_index = h.last_metadata_block_index

LiveSequence(hh) ==
  [k \in 1..LiveUnits(hh) |->
     IF hh.nof_wraparounds = 0 THEN hh.buffer[hh.back_index + k - 1]
     ELSE hh.buffer[(hh.back_index + k - 1) % hh.size]]

\* The sizes store_data_in_history asks for: the size plus a number of
\* increments, at most the maximum size, and more than the size.
GrowTargets(hh) ==
  { d \in (hh.size + 1)..hh.maximum_size :
      \/ d = hh.maximum_size
      \/ (d - hh.size) % hh.increment_size = 0 }

\* g is the store after try_to_enlarge_buffer with realloc's outcome o.
GrowKeepsData(g, o) ==
  IF o.ok
  THEN /\ LiveSequence(g.h) = LiveSequence(h)
       /\ g.h.front_index = h.front_index
       /\ g.h.back_index = h.back_index
       /\ g.h.size <= h.maximum_size
       /\ g.h.buffer[g.h.size] = 0
  ELSE g.h = h

\* C27 as claimed: enlarging the buffer never loses or reorders data.  After
\* a try_to_enlarge_buffer whose realloc succeeded, the live units read from
\* the back index to the front index are the same sequence as before, in
\* wrap-around mode too, the front and the back index keep their offsets,
\* the size is at most the maximum size and the unit after the buffer's end
\* is 0; after one whose realloc failed the store is unchanged.
C27_GrowthKeepsLiveUnits ==
  err = "none" =>
    \A d \in GrowTargets(h), o \in ReallocOutcomes :
      GrowKeepsData(try_to_enlarge_buffer(Now, d, o), o)

\* ------------------------------------------------------------------------
\* C28: the text output_repeat_paragraphs gives to z_ucs_output.
\* ------------------------------------------------------------------------
\* The units given to z_ucs_output by the calls of one operation, in order.
RECURSIVE Delivered(_)
Delivered(calls) ==
  IF calls = <<>> THEN <<>>
  ELSE IF calls[1][1] = "z_ucs_output"
  THEN calls[1][2] \o Delivered(Tail(calls))
  ELSE Delivered(Tail(calls))

\* The unit after offset i on the way from the back to the front index.
NextUnit(hh, i) ==
  IF hh.nof_wraparounds = 0 THEN i + 1 ELSE (i + 1) % hh.size

\* The text units from offset i up to the front index or to the end of the
\* n-th paragraph, records left out: "skip" units of a record are still to
\* be passed over; nothing is read outside the buffer; "closing" tells whether the newline that ends the n-th
\* paragraph is one of the text units.
RECURSIVE ParagraphText(_, _, _, _, _, _)
ParagraphText(hh, i, n, closing, skip, fuel) ==
  IF n <= 0 \/ fuel = 0 \/ i = hh.front_index \/ i \notin DOMAIN hh.buffer
  THEN <<>>
  ELSE IF skip > 0
  THEN ParagraphText(hh, NextUnit(hh, i), n, closing, skip - 1, fuel - 1)
  ELSE IF hh.buffer[i] = HISTORY_METADATA_ESCAPE
  THEN ParagraphText(hh, NextUnit(hh, i), n, closing,
                     RecordLen(hh.buffer[NextUnit(hh, i)]) - 1, fuel - 1)
  ELSE IF hh.buffer[i] = Z_UCS_NEWLINE
  THEN (IF n > 1 \/ closing THEN <<Z_UCS_NEWLINE>> ELSE <<>>)
         \o ParagraphText(hh, NextUnit(hh, i), n - 1, closing, 0, fuel - 1)
  ELSE <<hh.buffer[i]>>
         \o ParagraphText(hh, NextUnit(hh, i), n, closing, 0, fuel - 1)

\* C28 as claimed: the text output_repeat_paragraphs(n, include_metadata,
\* advance_history_pointer) gives to z_ucs_output, concatenated over the
\* call, is the text units of the next n paragraphs from
\* current_paragraph_index on, or up to the front index if there are fewer,
\* in the order of the buffer, and no unit of a metadata record is among
\* them.  The newline that ends the last of the n paragraphs may or may
\* not be counted as one of its text units.
C28_RepeatDeliversParagraphText ==
  [][(/\ out # <<>>
      /\ last'.op = "repeat"
      /\ nreads' = nreads + 1
      /\ err' = "none")
     => \E closing \in BOOLEAN :
          Delivered(last'.calls)
            = ParagraphText(h, out[1].current_paragraph_index, last'.arg[1],
                            closing, 0, h.size + 1)]_vars

\* ------------------------------------------------------------------------
\* C29 as claimed: when evaluate_metadata_for_paragraph walks back from the
\* paragraph's start and reaches the end of the live region with attributes
\* still unknown, the unknown font, style and foreground are taken from the
\* back-index state and the unknown background from the front-index state.
\* Here no record lies between the back index and the paragraph the rewind
\* has landed on, so that all four are unknown at the end of the walk.
\* ------------------------------------------------------------------------
C29_UnresolvedStateFromBack ==
  [][(/\ Sound /\ Rewound
      /\ out'[1].metadata_at_index_evaluated
      /\ DroppedUnits = 0
      /\ RecordsBefore(records,
           PlaceOf(h', stream, out'[1].current_paragraph_index)) = <<>>)
     => cursor_state(out'[1])
          = [back_state(h') EXCEPT
               !.background = front_state(h').background]]_vars

\* ------------------------------------------------------------------------
\* C30: the first output_rewind_paragraph of a cursor made at the front
\* when the last unit written is a newline, and the call after it.
\* ------------------------------------------------------------------------
\* The reader has just got a cursor that starts at the front, on a newline.
FreshOnNewline ==
  /\ out # <<>>
  /\ last.op = "init" /\ last.arg[1] = FALSE
  /\ h.buffer[out[1].current_paragraph_index] = Z_UCS_NEWLINE

\* The first rewind has returned at once: the cursor still stands on the
\* newline and is not to step back over it.
HeldOnNewline ==
  /\ out # <<>>
  /\ last.op = "rewind" /\ last.ret = 0
  /\ out[1].dont_skip_newline

\* This step is an output_rewind_paragraph that returns.
Rewinds == last'.op = "rewind" /\ nreads' = nreads + 1 /\ err' = "none"

\* C30 as claimed: the first output_rewind_paragraph of a cursor made at
\* the front, the last unit written being a newline, returns 0 at once with
\* char_count = 0 and rewound_paragraph_was_newline_terminated set and
\* leaves current_paragraph_index where it is; the next call does not step
\* back before it checks for that newline, and delivers the paragraph the
\* newline ends: it returns 0 with the cursor at the start of that
\* paragraph.
C30_FirstRewindHoldsOnNewline ==
  [][/\ (FreshOnNewline /\ Rewinds) =>
          /\ last'.ret = 0
          /\ last'.char_count = <<0>>
          /\ out'[1].rewound_paragraph_was_newline_terminated
          /\ out'[1].current_paragraph_index = out[1].current_paragraph_index
     /\ (HeldOnNewline /\ Rewinds) =>
          /\ ~out'[1].dont_skip_newline
          /\ last'.ret = 0
          /\ (out'[1].current_paragraph_index
                + ParagraphSpan(h, out'[1].current_paragraph_index,
                    UnitsAhead(h, out'[1].current_paragraph_index))) % h.size
               = out[1].current_paragraph_index]_vars

\* ------------------------------------------------------------------------
\* C31: nof_wraparounds counts the times the front index has passed the
\* buffer's end.
\* ------------------------------------------------------------------------
\* This step is a store_z_ucs_output_in_history or store_metadata_in_history
\* call that returns and leaves the buffer's size as it is.
Writes ==
  /\ last'.op \in {"store_text", "store_metadata"}
  /\ nops' = nops + 1
  /\ err' = "none"
  /\ h.block # 0
  /\ h'.size = h.size

\* The units the call has stored.
UnitsWritten == Len(stream') - Len(stream)

\* The write carries the front index across the buffer's end and on from
\* its start: in wrap-around mode as soon as the end is reached, before it
\* once a unit is left to store there.
FrontPassesEnd ==
  /\ Len(last'.arg) < h.maximum_size \/ last'.op = "store_metadata"
  /\ IF h.nof_wraparounds > 0
     THEN h.front_index + UnitsWritten >= h.size
     ELSE h.front_index + UnitsWritten > h.size

\* C31 as claimed: every write that carries the front index across the
\* buffer's end and on from its start increases nof_wraparounds by one,
\* also when the store is in wrap-around mode already.
C31_WrapsCountsPassesOfEnd ==
  [][(Writes /\ FrontPassesEnd)
     => h'.nof_wraparounds = h.nof_wraparounds + 1]_vars

\* ------------------------------------------------------------------------
\* C32 as claimed: every operation terminates.  In every state of the store
\* each call of output_rewind_paragraph, evaluate_metadata_for_paragraph,
\* output_repeat_paragraphs, remove_chars_from_history and
\* process_buffer_back returns after finitely many steps: no call is left
\* in a loop that does not end.
\* ------------------------------------------------------------------------
C32_EveryOperationReturns == err # "HANG"

\* ------------------------------------------------------------------------
\* C33: the units process_buffer_back looks at.
\* ------------------------------------------------------------------------
\* store_data_in_history with len units calls process_buffer_back before it
\* stores anything: for len >= z_history_maximum_buffer_size, and in the
\* wrap-around situation.
DrainRuns(hh, len) ==
  len > 0 /\ (len >= hh.maximum_size \/ hh.nof_wraparounds > 0)

\* Offset i holds a unit of the live region.
IsLiveCell(hh, i) ==
  /\ hh.block # 0
  /\ \E k \in 1..LiveUnits(hh) :
       i = (IF hh.nof_wraparounds = 0 THEN hh.back_index + k - 1
            ELSE (hh.back_index + k - 1) % hh.size)

\* C33 as claimed: each run of process_buffer_back scans the units starting
\* at the back index, and scans no unit outside the live region (an
\* unwritten unit, or the unit at the front index rather than the one at
\* the back index), also for the drain of the whole live region that
\* precedes a write of len >= z_history_maximum_buffer_size and for the
\* first write into a store that has no buffer yet.  The do-loop looks at
\* one unit at least, the one it starts at.
C33_DrainScansFromBack ==
  err = "none" =>
    \A data \in Texts :
      DrainRuns(h, Len(data)) =>
        /\ process_buffer_back_start(h) = h.back_index
        /\ IsLiveCell(h, process_buffer_back_start(h))

\* ------------------------------------------------------------------------
\* C34: the live region against the log of everything written.
\* ------------------------------------------------------------------------
\* C34 as claimed: after any sequence of store_z_ucs_output_in_history,
\* store_metadata_in_history and remove_chars_from_history calls the units
\* of the live region, read from the back index to the front index, are a
\* suffix of the log of all units written (the records of state blocks
\* included, the units taken back by remove_chars_from_history deleted), so
\* that no unit dropped or taken back is part of the live region again.
C34_LiveRegionIsSuffixOfLog ==
  err = "none" =>
    /\ LiveUnits(h) \in 0..Len(stream)
    /\ LiveSequence(h) = LastUnits(stream, LiveUnits(h))

\* ------------------------------------------------------------------------
\* C35: the unit at the back index.
\* ------------------------------------------------------------------------
\* The back index is at the type unit or at a parameter unit of record r:
\* the escape unit of r has left the live region and a later unit of r is
\* its oldest unit.
BackInside(r) == LeftInPart(r) /\ ~HasLeft(r)

\* C35 as claimed: in every reachable state of the store the back index is
\* at a record boundary, that is at a text unit or at the escape unit of a
\* record, never at the type unit or at a parameter unit of a record that
\* was overwritten in part.
C35_BackAtRecordBoundary ==
  (err = "none" /\ Aligned) =>
    \A i \in 1..Len(records) : ~BackInside(records[i])

\* ------------------------------------------------------------------------
\* C36: what a cursor that passes validate_outputhistory may rely on.
\* ------------------------------------------------------------------------
\* The writer and a validated reader on a history of at most 6 units that
\* grows by 4, with a realloc that may fail.
MaxValidityWrites == 3

ValidityTexts == { <<CH>>, <<CH, Z_UCS_NEWLINE>>,
                   <<CH, Z_UCS_NEWLINE, CH, Z_UCS_NEWLINE>> }

ValidityRemoveCounts == {1}

StoreValidityText ==
  StoreTextFrom(ValidityTexts, ReallocOutcomes, MaxValidityWrites)

RemoveValidityChars ==
  RemoveCharsFrom(ValidityRemoveCounts, MaxValidityWrites)

NextValidity ==
  StoreValidityText \/ RemoveValidityChars \/ InitOutput \/ AtFront

InitValidity ==
  InitWith({<<6, 4>>}) /\ ~paragraph_removal_function /\ little_endian

SpecValidity == InitValidity /\ [][NextValidity]_vars

\* The calls of the writer that may follow: a text with the outcome of
\* realloc, or a number of units to take back.
FurtherCalls ==
  [op : {"store_text"}, text : ValidityTexts, o : ReallocOutcomes, n : {0}]
  \cup [op : {"remove_chars"}, text : {<<>>},
        o : {CHOOSE o \in ReallocOutcomes : ~o.ok}, n : ValidityRemoveCounts]

\* The machine after call w of the writer.
After(m, w) ==
  IF m.err # "none" THEN m
  ELSE IF w.op = "store_text"
  THEN store_z_ucs_output_in_history(m, w.text, w.o)
  ELSE remove_chars_from_history(m, w.n)

\* m is the machine two calls on, reached with the live region changed and
\* with the wrap count and the front index cursor c captured.
PassesChanged(c, m) ==
  /\ m.err = "none"
  /\ validate_outputhistory(c, m.h)
  /\ LiveSequence(m.h) # LiveSequence(h)

\* C36 as claimed: a cursor created without
\* Z_HISTORY_OUTPUT_WITHOUT_VALIDATION that passes validate_outputhistory
\* sees the live region as it was: no two calls of the writer (a
\* remove_chars_from_history of k units followed by k new units, or writes
\* in the wrap-around situation that bring the front index back to the same
\* offset) change the units of the live region and leave the wrap count and
\* the front index at the values the cursor captured.
C36_ValidCursorSeesSameUnits ==
  ( /\ err = "none" /\ out # <<>>
    /\ ~out[1].validation_disabled
    /\ validate_outputhistory(out[1], h) )
  => \A w1 \in FurtherCalls, w2 \in FurtherCalls :
       ~PassesChanged(out[1], After(After(Now, w1), w2))

MaxHeldWrites == 3

HeldTexts == { <<CH>>, <<CH, Z_UCS_NEWLINE>> }

HeldCalls == { <<HISTORY_METADATA_TYPE_FONT, 4, 0>> }

\* (n, include_metadata, advance_history_pointer)
HeldRepeatCalls == { <<1, TRUE, FALSE>>, <<2, TRUE, FALSE>> }

StoreHeldText == StoreTextFrom(HeldTexts, ReaderReallocOutcomes, MaxHeldWrites)

StoreHeldMetadata ==
  StoreMetadataFrom(HeldCalls, ReaderReallocOutcomes, MaxHeldWrites)

RepeatHeld ==
  /\ Reading
  /\ \E a \in HeldRepeatCalls :
       Read(output_repeat_paragraphs(out[1], h, a[1], a[2], a[3]),
            "repeat", a)

NextHeld ==
  StoreHeldText \/ StoreHeldMetadata \/ InitOutput \/ Rewind \/ RepeatHeld

SpecHeld == InitColour /\ [][NextHeld]_vars

\* C38 as claimed: output_repeat_paragraphs with advance_history_pointer
\* false can be repeated: the second of two consecutive calls
\* output_repeat_paragraphs(n, true, false) makes the same set_font,
\* set_text_style, set_colour and z_ucs_output calls as the first and both
\* leave current_paragraph_index where it was, also when the paragraphs
\* hold FONT, STYLE or COLOUR records.
C38_RepeatWithoutAdvanceRepeats ==
  [][ ( /\ last.op = "repeat" /\ last.arg[2] /\ ~last.arg[3]
        /\ err = "none"
        /\ nreads' = nreads + 1
        /\ last'.op = "repeat" /\ last'.arg = last.arg
        /\ err' = "none" )
      => /\ last'.calls = last.calls
         /\ out'[1].current_paragraph_index = out[1].current_paragraph_index
         /\ out[1].current_paragraph_index = last.before ]_vars

\* ------------------------------------------------------------------------
\* C39: when remove_chars_from_history succeeds.
\* ------------------------------------------------------------------------
\* Place p of the stream holds a unit of record r.
InRecord(r, p) == p >= r.at /\ p < r.at + r.units

\* The text units of the live region: the places of the stream that are
\* still in it and hold no unit of a record.
LiveTextUnits ==
  Cardinality({ p \in (DroppedUnits + 1)..Len(stream) :
                  \A i \in 1..Len(records) : ~InRecord(records[i], p) })

\* C39 as claimed: remove_chars_from_history(n) returns 0 whenever the live
\* region holds n text units at least between the back index and the front
\* index, also on a wrapped buffer that is full (front index = back index),
\* and it returns -1 only when fewer than n text units are stored.
C39_RemoveSucceedsOnEnoughText ==
  Sound =>
    \A n \in RemoveCounts :
      LiveTextUnits >= n => remove_chars_from_history(Now, n).ret = 0

\* ------------------------------------------------------------------------
\* C40: what a state block does to the state of the text behind it.
\* ------------------------------------------------------------------------
\* The state a replay of all records stored ends with is, after the call,
\* the state before the call with the caller's record applied (none for a
\* text).
ReplayFollowsCaller ==
  emitted_state' =
    IF last'.op = "store_metadata"
    THEN ApplyRecord(emitted_state, last'.arg[1], last'.arg[2], last'.arg[3])
    ELSE emitted_state

\* C40 as claimed: a state block that store_data_in_history puts behind a
\* write does not change the presentation of the text stored after it: the
\* state a replay of the buffer's records reaches is the state of the
\* caller's latest store_metadata_in_history calls for FONT, STYLE and
\* COLOUR (or the state given at create), also when a state block with the
\* values of the back state lies between, and the front state is not
\* changed by the block.
C40_StateBlockKeepsPresentation ==
  [][ ( /\ last'.op \in {"store_text", "store_metadata"}
        /\ nops' = nops + 1
        /\ err' = "none" )
      => /\ ReplayFollowsCaller
         /\ last'.op = "store_text" => front_state(h') = front_state(h) ]_vars

====
